---- MODULE Spec2Model ----
(***************************************************************************)
(* Guest / authenticated dual-mode access layer of the CAPSTACK backend:   *)
(* the token issuers of the auth controller, optionalAuthMiddleware,       *)
(* requireAuthMiddleware and the savings router that mounts them.          *)
(***************************************************************************)
EXTENDS Integers, Sequences, FiniteSets, TLC

(***************************************************************************)
(* Bounds of the model.                                                    *)
(***************************************************************************)
MaxTime == 8
MaxIssued == 2
MaxUsers == 2

(***************************************************************************)
(* JavaScript values.  Every value is a record tagged with its type, so    *)
(* that undefined, null, false, 0 and "" stay distinct and the coercions   *)
(* of the source (||, !, ?.toString()) are computed as JavaScript does.    *)
(***************************************************************************)
Undef == [t |-> "undefined"]
Null == [t |-> "null"]
Num(n) == [t |-> "number", n |-> n]
Str(s) == [t |-> "string", s |-> s]
Bool(b) == [t |-> "boolean", b |-> b]

Truthy(v) ==
  CASE v.t = "undefined" -> FALSE
    [] v.t = "null" -> FALSE
    [] v.t = "number" -> v.n # 0
    [] v.t = "string" -> v.s # ""
    [] v.t = "boolean" -> v.b
    [] v.t = "chars" -> v.c # <<>>
    [] OTHER -> TRUE

\* a string kept as its characters, for values a regular expression inspects
Chars(c) == [t |-> "chars", c |-> c]

\* a || b
Or(a, b) == IF Truthy(a) THEN a ELSE b

Digit(d) ==
  CASE d = 0 -> "0" [] d = 1 -> "1" [] d = 2 -> "2" [] d = 3 -> "3"
    [] d = 4 -> "4" [] d = 5 -> "5" [] d = 6 -> "6" [] d = 7 -> "7"
    [] d = 8 -> "8" [] d = 9 -> "9"

RECURSIVE NumStr(_)
NumStr(n) == IF n < 10 THEN Digit(n) ELSE NumStr(n \div 10) \o Digit(n % 10)

\* v?.toString()
OptToString(v) ==
  CASE v.t = "undefined" -> Undef
    [] v.t = "null" -> Undef
    [] v.t = "number" -> Str(NumStr(v.n))
    [] v.t = "string" -> v
    [] v.t = "boolean" -> Str(IF v.b THEN "true" ELSE "false")

(***************************************************************************)
(* Session tokens (jsonwebtoken).  A signed token carries its payload, the *)
(* key it was signed with, and the iat / exp claims that sign() adds.      *)
(***************************************************************************)
jwtSecret == "jwtSecret"
ExpiresIn == 7

Payload(userId, email, name, isGuest) ==
  [userId |-> userId, email |-> email, name |-> name, isGuest |-> isGuest]

\* jwt.sign with expiresIn: '1d'
JwtSign_OneDay(payload, key, now) ==
  [k |-> "jwt", payload |-> payload, key |-> key, iat |-> now, exp |-> now + 1]

\* jwt.sign(payload, key, { expiresIn: '7d' }) at time now
JwtSign(payload, key, now) ==
  [k |-> "jwt", payload |-> payload, key |-> key, iat |-> now, exp |-> now + ExpiresIn]

Text(s) == [k |-> "text", s |-> s]

\* the claims a verified token decodes to: its payload and the iat and exp
\* that sign() added
Decoded(token) ==
  [userId |-> token.payload.userId, email |-> token.payload.email,
   name |-> token.payload.name, isGuest |-> token.payload.isGuest,
   iat |-> Num(token.iat), exp |-> Num(token.exp)]

\* jwt.verify(token, key) at time now: the decoded payload, or the error thrown
JwtVerify(token, key, now) ==
  IF token.k # "jwt" THEN [ok |-> FALSE, err |-> "jwt malformed"]
  ELSE IF token.key # key THEN [ok |-> FALSE, err |-> "invalid signature"]
  ELSE IF now >= token.exp THEN [ok |-> FALSE, err |-> "jwt expired"]
  ELSE [ok |-> TRUE, decoded |-> Decoded(token)]

(***************************************************************************)
(* The Authorization header is kept as the list of its space-separated     *)
(* segments, which is what authHeader.split(" ") yields; the empty string  *)
(* is the single empty segment.                                            *)
(***************************************************************************)
NoHeader == [present |-> FALSE]
Header(segs) == [present |-> TRUE, segs |-> segs]

\* !authHeader
HeaderFalsy(h) == ~h.present \/ h.segs = <<Text("")>>

\* authHeader.split(" ")[1], with the falsy results (undefined, "") as Text("")
SplitToken(h) == IF Len(h.segs) >= 2 THEN h.segs[2] ELSE Text("")

TokenFalsy(tok) == tok = Text("")

(***************************************************************************)
(* Requests and responses.                                                 *)
(***************************************************************************)
\* AuthenticatedRequest: the request with the fields the middlewares attach
Request(method, path, authorization, userId, isGuest, user) ==
  [method |-> method, path |-> path, authorization |-> authorization,
   userId |-> userId, isGuest |-> isGuest, user |-> user]

User(id, email, name, isGuest) ==
  [t |-> "object", id |-> id, email |-> email, name |-> name, isGuest |-> isGuest]

\* res.status(status).json(body)
Res(status, body) == [status |-> status, body |-> body]

\* what one run of a middleware did: the request as it left it, the number
\* of next() calls and the responses it wrote
Outcome(r, nexts, sent) == [req |-> r, nexts |-> nexts, sent |-> sent]

\* the anonymous classification leaving the identity of the request in place
Anonymous_KeepsIdentity(r) == [r EXCEPT !.isGuest = Bool(TRUE)]

\* lines 31-33, 41-43, 59-61: classified anonymous
Anonymous(r) == [r EXCEPT !.isGuest = Bool(TRUE), !.userId = Undef, !.user = Undef]

\* the decoded identity attached without req.userId
AttachOptional_NoUserId(r, decoded) ==
  [r EXCEPT
     !.isGuest = Or(decoded.isGuest, Bool(FALSE)),
     !.user = User(Or(OptToString(decoded.userId), Str("")),
                   Or(decoded.email, Null),
                   Or(decoded.name, Str("")),
                   Or(decoded.isGuest, Bool(FALSE)))]

\* lines 49-56: the decoded identity, attached by optionalAuthMiddleware
AttachOptional(r, decoded) ==
  [r EXCEPT
     !.userId = decoded.userId,
     !.isGuest = Or(decoded.isGuest, Bool(FALSE)),
     !.user = User(Or(OptToString(decoded.userId), Str("")),
                   Or(decoded.email, Null),
                   Or(decoded.name, Str("")),
                   Or(decoded.isGuest, Bool(FALSE)))]

\* lines 107-114: the decoded identity, attached by requireAuthMiddleware
AttachRequired(r, decoded) ==
  [r EXCEPT
     !.userId = decoded.userId,
     !.isGuest = Bool(FALSE),
     !.user = User(Or(OptToString(decoded.userId), Str("")),
                   Or(decoded.email, Str("")),
                   Or(decoded.name, Str("")),
                   Bool(FALSE))]

AuthRequiredBody ==
  [error |-> "Authentication required for this feature. Please create an account."]
InvalidFormatBody == [error |-> "Invalid token format"]
GuestForbiddenBody ==
  [error |-> "This feature requires a full account. Please register with your email to access advanced features.",
   requiresRegistration |-> TRUE]

\* optionalAuthMiddleware answering a token that fails verification with 401
optionalAuthMiddleware_Rejects(r, now) ==
  IF r.method = "OPTIONS" THEN Outcome(r, 1, <<>>)
  ELSE IF HeaderFalsy(r.authorization) THEN Outcome(Anonymous(r), 1, <<>>)
  ELSE LET token == SplitToken(r.authorization) IN
    IF TokenFalsy(token) THEN Outcome(Anonymous(r), 1, <<>>)
    ELSE LET v == JwtVerify(token, jwtSecret, now) IN
      IF v.ok THEN Outcome(AttachOptional(r, v.decoded), 1, <<>>)
      ELSE Outcome(r, 0, <<Res(401, AuthRequiredBody)>>)

\* optionalAuthMiddleware without the "|| false" default of req.isGuest
optionalAuthMiddleware_RawFlag(r, now) ==
  IF r.method = "OPTIONS" THEN Outcome(r, 1, <<>>)
  ELSE IF HeaderFalsy(r.authorization) THEN Outcome(Anonymous(r), 1, <<>>)
  ELSE LET token == SplitToken(r.authorization) IN
    IF TokenFalsy(token) THEN Outcome(Anonymous(r), 1, <<>>)
    ELSE LET v == JwtVerify(token, jwtSecret, now) IN
      IF v.ok
      THEN Outcome([AttachOptional(r, v.decoded) EXCEPT !.isGuest = v.decoded.isGuest],
                   1, <<>>)
      ELSE Outcome(Anonymous(r), 1, <<>>)

\* optionalAuthMiddleware with an empty catch around jwt.verify
optionalAuthMiddleware_SilentCatch(r, now) ==
  IF r.method = "OPTIONS" THEN Outcome(r, 1, <<>>)
  ELSE IF HeaderFalsy(r.authorization) THEN Outcome(Anonymous(r), 1, <<>>)
  ELSE LET token == SplitToken(r.authorization) IN
    IF TokenFalsy(token) THEN Outcome(Anonymous(r), 1, <<>>)
    ELSE LET v == JwtVerify(token, jwtSecret, now) IN
      IF v.ok THEN Outcome(AttachOptional(r, v.decoded), 1, <<>>)
      ELSE Outcome(r, 1, <<>>)

optionalAuthMiddleware(r, now) ==
  IF r.method = "OPTIONS" THEN Outcome(r, 1, <<>>)
  ELSE IF HeaderFalsy(r.authorization) THEN Outcome(Anonymous(r), 1, <<>>)
  ELSE LET token == SplitToken(r.authorization) IN
    IF TokenFalsy(token) THEN Outcome(Anonymous(r), 1, <<>>)
    ELSE LET v == JwtVerify(token, jwtSecret, now) IN
      IF v.ok THEN Outcome(AttachOptional(r, v.decoded), 1, <<>>)
      ELSE Outcome(Anonymous(r), 1, <<>>)

\* requireAuthMiddleware without the guest check of lines 100-105
requireAuthMiddleware_NoGuestCheck(r, now) ==
  IF r.method = "OPTIONS" THEN Outcome(r, 1, <<>>)
  ELSE IF HeaderFalsy(r.authorization) THEN Outcome(r, 0, <<Res(401, AuthRequiredBody)>>)
  ELSE LET token == SplitToken(r.authorization) IN
    IF TokenFalsy(token) THEN Outcome(r, 0, <<Res(401, InvalidFormatBody)>>)
    ELSE LET v == JwtVerify(token, jwtSecret, now) IN
      IF ~v.ok THEN Outcome(r, 0, <<Res(401, AuthRequiredBody)>>)
      ELSE Outcome(AttachRequired(r, v.decoded), 1, <<>>)

\* requireAuthMiddleware answering a guest token like any other failure
requireAuthMiddleware_Guest401(r, now) ==
  IF r.method = "OPTIONS" THEN Outcome(r, 1, <<>>)
  ELSE IF HeaderFalsy(r.authorization) THEN Outcome(r, 0, <<Res(401, AuthRequiredBody)>>)
  ELSE LET token == SplitToken(r.authorization) IN
    IF TokenFalsy(token) THEN Outcome(r, 0, <<Res(401, InvalidFormatBody)>>)
    ELSE LET v == JwtVerify(token, jwtSecret, now) IN
      IF ~v.ok THEN Outcome(r, 0, <<Res(401, AuthRequiredBody)>>)
      ELSE IF Truthy(v.decoded.isGuest) THEN Outcome(r, 0, <<Res(401, AuthRequiredBody)>>)
      ELSE Outcome(AttachRequired(r, v.decoded), 1, <<>>)

\* requireAuthMiddleware testing "decoded.isGuest !== false"
requireAuthMiddleware_StrictFlag(r, now) ==
  IF r.method = "OPTIONS" THEN Outcome(r, 1, <<>>)
  ELSE IF HeaderFalsy(r.authorization) THEN Outcome(r, 0, <<Res(401, AuthRequiredBody)>>)
  ELSE LET token == SplitToken(r.authorization) IN
    IF TokenFalsy(token) THEN Outcome(r, 0, <<Res(401, InvalidFormatBody)>>)
    ELSE LET v == JwtVerify(token, jwtSecret, now) IN
      IF ~v.ok THEN Outcome(r, 0, <<Res(401, AuthRequiredBody)>>)
      ELSE IF v.decoded.isGuest # Bool(FALSE) THEN Outcome(r, 0, <<Res(403, GuestForbiddenBody)>>)
      ELSE Outcome(AttachRequired(r, v.decoded), 1, <<>>)

\* requireAuthMiddleware letting a request without a header through as a guest
requireAuthMiddleware_NoHeaderPasses(r, now) ==
  IF r.method = "OPTIONS" THEN Outcome(r, 1, <<>>)
  ELSE IF HeaderFalsy(r.authorization) THEN Outcome(Anonymous(r), 1, <<>>)
  ELSE LET token == SplitToken(r.authorization) IN
    IF TokenFalsy(token) THEN Outcome(r, 0, <<Res(401, InvalidFormatBody)>>)
    ELSE LET v == JwtVerify(token, jwtSecret, now) IN
      IF ~v.ok THEN Outcome(r, 0, <<Res(401, AuthRequiredBody)>>)
      ELSE IF Truthy(v.decoded.isGuest) THEN Outcome(r, 0, <<Res(403, GuestForbiddenBody)>>)
      ELSE Outcome(AttachRequired(r, v.decoded), 1, <<>>)

\* requireAuthMiddleware without the "if (!token)" check: jwt.verify throws
\* on the missing token and the catch answers
requireAuthMiddleware_NoTokenCheck(r, now) ==
  IF r.method = "OPTIONS" THEN Outcome(r, 1, <<>>)
  ELSE IF HeaderFalsy(r.authorization) THEN Outcome(r, 0, <<Res(401, AuthRequiredBody)>>)
  ELSE LET token == SplitToken(r.authorization) IN
    LET v == JwtVerify(token, jwtSecret, now) IN
      IF ~v.ok THEN Outcome(r, 0, <<Res(401, AuthRequiredBody)>>)
      ELSE IF Truthy(v.decoded.isGuest) THEN Outcome(r, 0, <<Res(403, GuestForbiddenBody)>>)
      ELSE Outcome(AttachRequired(r, v.decoded), 1, <<>>)

\* requireAuthMiddleware reading the token with jwt.decode: the payload of
\* any well-formed token, unverified
requireAuthMiddleware_Decode(r, now) ==
  IF r.method = "OPTIONS" THEN Outcome(r, 1, <<>>)
  ELSE IF HeaderFalsy(r.authorization) THEN Outcome(r, 0, <<Res(401, AuthRequiredBody)>>)
  ELSE LET token == SplitToken(r.authorization) IN
    IF TokenFalsy(token) THEN Outcome(r, 0, <<Res(401, InvalidFormatBody)>>)
    ELSE IF token.k # "jwt" THEN Outcome(r, 0, <<Res(401, AuthRequiredBody)>>)
    ELSE IF Truthy(token.payload.isGuest) THEN Outcome(r, 0, <<Res(403, GuestForbiddenBody)>>)
    ELSE Outcome(AttachRequired(r, token.payload), 1, <<>>)

\* requireAuthMiddleware without "return" in front of the 403 response
requireAuthMiddleware_NoReturn(r, now) ==
  IF r.method = "OPTIONS" THEN Outcome(r, 1, <<>>)
  ELSE IF HeaderFalsy(r.authorization) THEN Outcome(r, 0, <<Res(401, AuthRequiredBody)>>)
  ELSE LET token == SplitToken(r.authorization) IN
    IF TokenFalsy(token) THEN Outcome(r, 0, <<Res(401, InvalidFormatBody)>>)
    ELSE LET v == JwtVerify(token, jwtSecret, now) IN
      IF ~v.ok THEN Outcome(r, 0, <<Res(401, AuthRequiredBody)>>)
      ELSE IF Truthy(v.decoded.isGuest)
      THEN Outcome(AttachRequired(r, v.decoded), 1, <<Res(403, GuestForbiddenBody)>>)
      ELSE Outcome(AttachRequired(r, v.decoded), 1, <<>>)

\* requireAuthMiddleware without the preflight bypass of lines 80-83
requireAuthMiddleware_NoPreflight(r, now) ==
  IF HeaderFalsy(r.authorization) THEN Outcome(r, 0, <<Res(401, AuthRequiredBody)>>)
  ELSE LET token == SplitToken(r.authorization) IN
    IF TokenFalsy(token) THEN Outcome(r, 0, <<Res(401, InvalidFormatBody)>>)
    ELSE LET v == JwtVerify(token, jwtSecret, now) IN
      IF ~v.ok THEN Outcome(r, 0, <<Res(401, AuthRequiredBody)>>)
      ELSE IF Truthy(v.decoded.isGuest) THEN Outcome(r, 0, <<Res(403, GuestForbiddenBody)>>)
      ELSE Outcome(AttachRequired(r, v.decoded), 1, <<>>)

requireAuthMiddleware(r, now) ==
  IF r.method = "OPTIONS" THEN Outcome(r, 1, <<>>)
  ELSE IF HeaderFalsy(r.authorization) THEN Outcome(r, 0, <<Res(401, AuthRequiredBody)>>)
  ELSE LET token == SplitToken(r.authorization) IN
    IF TokenFalsy(token) THEN Outcome(r, 0, <<Res(401, InvalidFormatBody)>>)
    ELSE LET v == JwtVerify(token, jwtSecret, now) IN
      IF ~v.ok THEN Outcome(r, 0, <<Res(401, AuthRequiredBody)>>)
      ELSE IF Truthy(v.decoded.isGuest) THEN Outcome(r, 0, <<Res(403, GuestForbiddenBody)>>)
      ELSE Outcome(AttachRequired(r, v.decoded), 1, <<>>)

(***************************************************************************)
(* The savings router.                                                     *)
(***************************************************************************)
MutatingRoutes ==
  [p \in {"/lock", "/unlock/:planId", "/plan", "/check-transaction",
          "/process-transaction", "/auto-save"} |->
     CASE p = "/lock" -> "lock"
       [] p = "/unlock/:planId" -> "unlock"
       [] p = "/plan" -> "createPlan"
       [] p = "/check-transaction" -> "checkTransaction"
       [] p = "/process-transaction" -> "processTransaction"
       [] p = "/auto-save" -> "triggerAutoSave"]

MutatingHandlers == {MutatingRoutes[p] : p \in DOMAIN MutatingRoutes}

DemoRoutes ==
  [p \in {"/status", "/insights"} |->
     IF p = "/status" THEN "getStatus" ELSE "getInsights"]

DemoStatusBody ==
  [plans |-> <<"Emergency Fund", "Vacation Fund">>, isGuest |-> TRUE,
   note |-> "Demo savings data. Sign up to create and manage real plans."]
DemoInsightsBody ==
  [insights |-> 3, isGuest |-> TRUE,
   note |-> "Demo insights. Create an account to track your own savings discipline."]

\* the demo branch taken only when the request is both without a user id and
\* a guest
DemoBranch_And(r) ==
  IF ~Truthy(r.userId) /\ Truthy(r.isGuest)
  THEN [sent |-> <<Res(200, IF r.path = "/status" THEN DemoStatusBody ELSE DemoInsightsBody)>>,
        invoked |-> "demo"]
  ELSE [sent |-> <<>>, invoked |-> DemoRoutes[r.path]]

\* the inline handlers of GET /status and GET /insights: the demo payload,
\* or delegation to the controller
DemoBranch(r) ==
  IF ~Truthy(r.userId) \/ Truthy(r.isGuest)
  THEN [sent |-> <<Res(200, IF r.path = "/status" THEN DemoStatusBody ELSE DemoInsightsBody)>>,
        invoked |-> "demo"]
  ELSE [sent |-> <<>>, invoked |-> DemoRoutes[r.path]]

(***************************************************************************)
(* State.                                                                  *)
(***************************************************************************)
VARIABLES
  now,         \* the server clock, in days
  users,       \* the users table
  issued,      \* the tokens handed out to clients so far
  pc,          \* where the request in flight stands
  req,         \* the request in flight
  responses,   \* the responses written for it
  nextCalls,   \* next() calls made by each middleware for it
  invoked,     \* the handler that ran for it
  last,        \* the middleware that ran last: its name, its input, the time
               \* it ran at, its next() calls and the responses it wrote
  dbCalls,     \* the DatabaseService calls made for the request in flight
  flights,     \* the requests that are in the access layer at the same time
  running,     \* the auth handlers that are running at the same time, each
               \* standing at one of its awaits
  replies,     \* the successful responses they have sent, in order
  client,      \* the browser: localStorage, the AuthProvider state, the login
               \* page state and the call the page is making
  resets,      \* password resets: the clock in minutes, the password column of
               \* the user, the password_resets row and the resetPassword
               \* calls that are running
  profiles     \* profile updates: the users row and the user_profiles row of
               \* the caller and the updateProfile call that is running

\* the state outside the single request in flight
ext == <<flights, running, replies, client, resets, profiles>>

vars == <<now, users, issued, pc, req, responses, nextCalls, invoked, last, dbCalls, ext>>

Methods == {"GET", "POST", "OPTIONS"}
Paths == DOMAIN MutatingRoutes \cup DOMAIN DemoRoutes \cup {"/other"}
Emails == {"ann@x.io"}
Names == {"Ann"}
Pins == {<<"1", "2", "3", "4">>, <<"1", "2">>, <<"1", "2", "a", "4">>,
         <<"1", "2", "3", "4", "5">>}

\* the PINs tried at login: those above and one that no user has
LoginPins == Pins \cup {<<"4", "3", "2", "1">>}
Rnd == {"k3x9q2m1z"}
otherKey == "otherKey"

NoRequest == Request("NONE", "", NoHeader, Undef, Undef, Undef)
NoCalls == [optional |-> 0, require |-> 0]
NoLast == [mw |-> "none", before |-> NoRequest, at |-> 0, nexts |-> 0, sent |-> <<>>]

\* a slot of the access layer with no request in it
NoFlight == [pc |-> "idle", req |-> NoRequest, last |-> NoLast]

NFlights == 2

\* a handler slot with no call in it
NoCall ==
  [pc |-> "idle", op |-> "none", body |-> [email |-> Undef, pin |-> Undef, name |-> Undef],
   at |-> 0, email |-> "", out |-> "none", userId |-> 0, res |-> [status |-> 0]]

NCalls == 2

\* a part of the system that does not run: no browser is open, the password
\* and user controllers are not mounted
Off == [pc |-> "off"]

\* localStorage.getItem("token") when there is no item
NoItem == [k |-> "none"]

NoAttempt == [op |-> "none", hadToken |-> FALSE, sent |-> FALSE, status |-> 0]

\* the browser before the application is mounted: useState(null),
\* useState(true), and the login page's useState(false), useState('')
Browser(item) ==
  [pc |-> "mount", storage |-> item, user |-> Null, loading |-> TRUE,
   pageLoading |-> FALSE, pageError |-> "", attempt |-> NoAttempt]

\* bcrypt.hash(password, 10)
Hash(password) == <<"bcrypt", password>>

\* crypto.randomBytes(32).toString('hex'), one value for each call
ResetTokens == <<"a3f1", "9c0e">>

\* no row of password_resets
NoResetRow == [id |-> 0, user_id |-> 0, token |-> "", expires_at |-> 0, used |-> FALSE]

\* a resetPassword call that has not started
NoResetCall ==
  [pc |-> "idle", token |-> Undef, newPassword |-> Undef, resetRecord |-> NoResetRow,
   res |-> [status |-> 0]]

\* resetPassword calls that can run at the same time
NResetCalls == 2

\* one user, who has a password and has not asked for a reset; wrote[t] is
\* the number of calls presenting token t that updated the password,
\* succeeded[t] the number that answered 'Password reset successfully'
NoResets ==
  [clock |-> 0, password |-> Hash("initial"), row |-> NoResetRow, made |-> 0, started |-> 0,
   calls |-> [i \in 1..NResetCalls |-> NoResetCall],
   wrote |-> [t \in 1..Len(ResetTokens) |-> 0],
   succeeded |-> [t \in 1..Len(ResetTokens) |-> 0]]

\* an updateProfile call that has not started
NoUpdate ==
  [pc |-> "idle", body |-> [name |-> Undef, email |-> Undef, location |-> Undef,
                            savings_rate |-> Undef],
   userBefore |-> Null, profileBefore |-> Null, res |-> [status |-> 0]]

\* the caller's users row, no user_profiles row yet (null)
NoProfiles ==
  [user |-> [id |-> 1, name |-> Str("Ann"), email |-> Str("ann@x.io")],
   profile |-> Null, started |-> 0, call |-> NoUpdate]

\* tokens a client can put in a header without the server's secret
ForgedTokens(t) ==
  {JwtSign(Payload(Num(1), Str("ann@x.io"), Str("Ann"), g), otherKey, t) :
     g \in {Bool(FALSE), Undef}}
  \cup {Text("garbage")}

Headers(t, toks) ==
  {NoHeader, Header(<<Text("")>>), Header(<<Text("Bearer")>>),
   Header(<<Text("Bearer"), Text("")>>)}
  \cup {Header(<<Text("Bearer"), tok>>) : tok \in toks \cup ForgedTokens(t)}
  \cup {Header(<<Text("Bearer"), Text(""), tok>>) : tok \in toks}
  \cup {Header(<<tok>>) : tok \in toks}

InitServer ==
  /\ now = 0
  /\ users = {}
  /\ issued = {}
  /\ pc = "idle"
  /\ req = NoRequest
  /\ responses = <<>>
  /\ nextCalls = NoCalls
  /\ invoked = "none"
  /\ last = NoLast
  /\ dbCalls = <<>>

\* one request at a time: nothing runs beside it
Init ==
  /\ InitServer
  /\ flights = <<>>
  /\ running = <<>>
  /\ replies = <<>>
  /\ client = Off
  /\ resets = Off
  /\ profiles = Off

\* the access layer with NFlights free slots
InitConc ==
  /\ InitServer
  /\ flights = [i \in 1..NFlights |-> NoFlight]
  /\ running = <<>>
  /\ replies = <<>>
  /\ client = Off
  /\ resets = Off
  /\ profiles = Off

\* NCalls handler slots, no call started
InitCalls ==
  /\ InitServer
  /\ flights = <<>>
  /\ running = [i \in 1..NCalls |-> NoCall]
  /\ replies = <<>>
  /\ client = Off
  /\ resets = Off
  /\ profiles = Off

\* the password controller
InitReset ==
  /\ InitServer
  /\ flights = <<>>
  /\ running = <<>>
  /\ replies = <<>>
  /\ client = Off
  /\ resets = NoResets
  /\ profiles = Off

\* the user controller
InitProfile ==
  /\ InitServer
  /\ flights = <<>>
  /\ running = <<>>
  /\ replies = <<>>
  /\ client = Off
  /\ resets = Off
  /\ profiles = NoProfiles

(***************************************************************************)
(* The clock.  jwt.verify reads it once in each middleware, so it can move *)
(* between requests and between the two middlewares of one request.        *)
(***************************************************************************)
Tick ==
  /\ pc \in {"idle", "route"}
  /\ now < MaxTime
  /\ now' = now + 1
  /\ UNCHANGED <<ext, users, issued, pc, req, responses, nextCalls, invoked, last, dbCalls>>

(***************************************************************************)
(* The users table and DatabaseService.                                    *)
(***************************************************************************)
UserRow(id, email, name, pin) == [id |-> id, email |-> email, name |-> name, pin |-> pin]

\* a sequence that hands out the id of the last row again
NextId_Fixed == IF users = {} THEN 1 ELSE Cardinality(users)

\* id SERIAL PRIMARY KEY
NextId == Cardinality(users) + 1

\* email VARCHAR(255) UNIQUE NOT NULL
EmailTaken(email) == \E u \in users : u.email = email

getUserByEmail(email) == {u \in users : u.email = email}

getUserByEmailAndPin(email, pin) == {u \in users : u.email = email /\ u.pin = pin}

DefaultGuestPin == <<"0", "0", "0", "0">>

\* /\d{4}/.test(pin), the pattern without its anchors
IsFourDigits_Unanchored(pin) ==
  \E i \in 1..(Len(pin) - 3) :
    \A j \in i..(i + 3) : pin[j] \in {"0", "1", "2", "3", "4", "5", "6", "7", "8", "9"}

\* /^\d{4}$/.test(pin)
IsFourDigits(pin) ==
  /\ Len(pin) = 4
  /\ \A i \in 1..Len(pin) : pin[i] \in {"0", "1", "2", "3", "4", "5", "6", "7", "8", "9"}

\* req.body of an auth request; a field the client left out is undefined
AuthBody(email, pin, name) == [email |-> email, pin |-> pin, name |-> name]

EmptyBody == AuthBody(Undef, Undef, Undef)

AuthRequest(path, body) ==
  [method |-> "POST", path |-> path, authorization |-> NoHeader,
   userId |-> Undef, isGuest |-> Undef, user |-> Undef, body |-> body]

\* error.message of the exception a failing DatabaseService call throws
StoreErrorMessage == "connect ECONNREFUSED 127.0.0.1:5432"

\* one call of DatabaseService and how it came back
Call(op, out) == [op |-> op, out |-> out]

\* an auth handler answered: the request is done
Answer(path, handler, body, res, calls) ==
  /\ pc' = "done"
  /\ req' = AuthRequest(path, body)
  /\ responses' = <<res>>
  /\ invoked' = handler
  /\ nextCalls' = NoCalls
  /\ last' = NoLast
  /\ dbCalls' = calls
  /\ UNCHANGED <<now, ext>>

(***************************************************************************)
(* The auth controller: verify, guestLogin, login, register.               *)
(***************************************************************************)
\* verify answering a failed verification without the valid flag
verifyHandler_NoValidFlag(h, t) ==
  IF HeaderFalsy(h) THEN Res(401, [error |-> "No token provided"])
  ELSE LET token == SplitToken(h) IN
    IF TokenFalsy(token) THEN Res(401, [error |-> "Invalid token format"])
    ELSE LET v == JwtVerify(token, jwtSecret, t) IN
      IF v.ok THEN Res(200, [valid |-> TRUE, payload |-> v.decoded])
      ELSE Res(401, [error |-> v.err])

\* verify: the response to a request with Authorization header h at time t
verifyHandler(h, t) ==
  IF HeaderFalsy(h) THEN Res(401, [error |-> "No token provided"])
  ELSE LET token == SplitToken(h) IN
    IF TokenFalsy(token) THEN Res(401, [error |-> "Invalid token format"])
    ELSE LET v == JwtVerify(token, jwtSecret, t) IN
      IF v.ok THEN Res(200, [valid |-> TRUE, payload |-> v.decoded])
      ELSE Res(401, [valid |-> FALSE, error |-> v.err])

verify ==
  /\ pc = "idle"
  /\ \E h \in Headers(now, issued) :
       /\ req' = Request("GET", "/auth/verify", h, Undef, Undef, Undef)
       /\ responses' = <<verifyHandler(h, now)>>
  /\ pc' = "done"
  /\ invoked' = "verify"
  /\ nextCalls' = NoCalls
  /\ last' = NoLast
  /\ dbCalls' = <<>>
  /\ UNCHANGED <<ext, now, users, issued>>

\* the guest token signed without its guest flag set
GuestToken_NotGuest(userId, guestEmail, guestName, t) ==
  JwtSign(Payload(Num(userId), Str(guestEmail), Str(guestName), Bool(FALSE)), jwtSecret, t)

\* lines 36-40: the token guestLogin signs
GuestToken(userId, guestEmail, guestName, t) ==
  JwtSign(Payload(Num(userId), Str(guestEmail), Str(guestName), Bool(TRUE)), jwtSecret, t)

\* the login token with the user's name and email in each other's place
LoginToken_Swapped(user, t) ==
  JwtSign(Payload(Num(user.id), Str(user.name), Str(user.email), Bool(FALSE)), jwtSecret, t)

\* lines 77-81: the token login signs
LoginToken(user, t) ==
  JwtSign(Payload(Num(user.id), Str(user.email), Str(user.name), Bool(FALSE)), jwtSecret, t)

\* lines 120-124: the token register signs, without an isGuest claim
RegisterToken(userId, email, name, t) ==
  JwtSign(Payload(Num(userId), email, name, Undef), jwtSecret, t)

GuestSessionFailed == Res(500, [error |-> "Failed to create guest session"])

\* the body of guestLogin, which login also runs when it gets no credentials
GuestSession(path, handler, body) ==
  \E rnd \in Rnd, db \in {"ok", "zero", "throw"} :
    LET guestId == "guest_" \o NumStr(now) \o "_" \o rnd
        guestEmail == guestId \o "@guest.capstack.local"
        guestName == "Guest User"
        userId == NextId
        token == GuestToken(userId, guestEmail, guestName, now)
        out == IF db = "ok" /\ EmailTaken(guestEmail) THEN "throw" ELSE db
    IN IF out = "ok"
       THEN /\ Cardinality(users) < MaxUsers
            /\ Cardinality(issued) < MaxIssued
            /\ users' = users \cup {UserRow(userId, guestEmail, guestName, DefaultGuestPin)}
            /\ issued' = issued \cup {token}
            /\ Answer(path, handler, body,
                 Res(200, [token |-> token,
                           user |-> User(Str(NumStr(userId)), Str(guestEmail),
                                         Str(guestName), Bool(TRUE))]),
                 <<Call("createGuestUser", out)>>)
       ELSE /\ UNCHANGED <<users, issued>>
            /\ Answer(path, handler, body, GuestSessionFailed,
                 <<Call("createGuestUser", out)>>)

guestLogin ==
  /\ pc = "idle"
  /\ GuestSession("/auth/guest", "guestLogin", EmptyBody)

\* login without its guest branch
NoCredentials_Never(email, pin) == FALSE

\* line 57: !email && !pin
NoCredentials(email, pin) == ~Truthy(email) /\ ~Truthy(pin)

\* the user looked up by the email alone
loginUser_ByEmail(email, pin) == getUserByEmail(email)

\* line 71: user
loginUser(email, pin) == getUserByEmailAndPin(email, pin)

login ==
  /\ pc = "idle"
  /\ \E email \in {Undef} \cup {Str(e) : e \in Emails},
        pin \in {Undef} \cup {Chars(p) : p \in LoginPins},
        db \in {"ok", "throw"} :
       LET body == AuthBody(email, pin, Undef) IN
       IF NoCredentials(email, pin)
       THEN db = "ok" /\ GuestSession("/auth/login", "login", body)
       ELSE IF ~Truthy(email) \/ ~Truthy(pin)
       THEN /\ db = "ok"
            /\ UNCHANGED <<users, issued>>
            /\ Answer("/auth/login", "login", body,
                 Res(400, [error |-> "Email and PIN are required"]), <<>>)
       ELSE IF ~IsFourDigits(pin.c)
       THEN /\ db = "ok"
            /\ UNCHANGED <<users, issued>>
            /\ Answer("/auth/login", "login", body,
                 Res(400, [error |-> "PIN must be exactly 4 digits"]), <<>>)
       ELSE IF db = "throw"
       THEN /\ UNCHANGED <<users, issued>>
            /\ Answer("/auth/login", "login", body,
                 Res(500, [error |-> "Login failed. Please try again."]),
                 <<Call("getUserByEmailAndPin", "throw")>>)
       ELSE IF loginUser(email.s, pin.c) = {}
       THEN /\ UNCHANGED <<users, issued>>
            /\ Answer("/auth/login", "login", body,
                 Res(401, [error |-> "Invalid email or PIN"]),
                 <<Call("getUserByEmailAndPin", "null")>>)
       ELSE \E user \in loginUser(email.s, pin.c) :
              LET token == LoginToken(user, now)
              IN /\ Cardinality(issued \cup {token}) <= MaxIssued
                 /\ issued' = issued \cup {token}
                 /\ UNCHANGED users
                 /\ Answer("/auth/login", "login", body,
                      Res(200, [token |-> token,
                                user |-> User(Str(NumStr(user.id)), Str(user.email),
                                              Str(user.name), Bool(FALSE))]),
                      <<Call("getUserByEmailAndPin", "ok")>>)

\* the lookup of the existing user made on the wrong column
existingUser_ByName(email) == {u \in users : u.name = email}

\* line 107: existingUser
existingUser(email) == getUserByEmail(email)

register ==
  /\ pc = "idle"
  /\ \E email \in {Undef} \cup {Str(e) : e \in Emails},
        pin \in {Undef} \cup {Chars(p) : p \in Pins},
        name \in {Undef} \cup {Str(n) : n \in Names},
        lookup \in {"ok", "throw"},
        create \in {"ok", "zero", "throw"} :
       LET body == AuthBody(email, pin, name) IN
       IF ~Truthy(email) \/ ~Truthy(pin) \/ ~Truthy(name)
       THEN /\ lookup = "ok" /\ create = "ok"
            /\ UNCHANGED <<users, issued>>
            /\ Answer("/auth/register", "register", body,
                 Res(400, [error |-> "Email, PIN, and name are required"]), <<>>)
       ELSE IF ~IsFourDigits(pin.c)
       THEN /\ lookup = "ok" /\ create = "ok"
            /\ UNCHANGED <<users, issued>>
            /\ Answer("/auth/register", "register", body,
                 Res(400, [error |-> "PIN must be exactly 4 digits"]), <<>>)
       ELSE IF lookup = "throw"
       THEN /\ create = "ok"
            /\ UNCHANGED <<users, issued>>
            /\ Answer("/auth/register", "register", body,
                 Res(500, [error |-> "Registration failed. Please try again.",
                           details |-> StoreErrorMessage]),
                 <<Call("getUserByEmail", "throw")>>)
       ELSE IF existingUser(email.s) # {}
       THEN /\ create = "ok"
            /\ UNCHANGED <<users, issued>>
            /\ Answer("/auth/register", "register", body,
                 Res(400, [error |-> "User already exists with this email"]),
                 <<Call("getUserByEmail", "ok")>>)
       ELSE LET userId == NextId
                token == RegisterToken(userId, email, name, now)
                out == IF create = "ok" /\ EmailTaken(email.s) THEN "throw" ELSE create
            IN IF out = "throw"
               THEN /\ UNCHANGED <<users, issued>>
                    /\ Answer("/auth/register", "register", body,
                         Res(500, [error |-> "Registration failed. Please try again.",
                                   details |-> StoreErrorMessage]),
                         <<Call("getUserByEmail", "null"), Call("createUserWithPin", out)>>)
               ELSE IF out = "zero"
               THEN /\ UNCHANGED <<users, issued>>
                    /\ Answer("/auth/register", "register", body,
                         Res(500, [error |-> "Failed to create user account. Please try again."]),
                         <<Call("getUserByEmail", "null"), Call("createUserWithPin", out)>>)
               ELSE /\ Cardinality(users) < MaxUsers
                    /\ Cardinality(issued) < MaxIssued
                    /\ users' = users \cup {UserRow(userId, email.s, name.s, pin.c)}
                    /\ issued' = issued \cup {token}
                    /\ Answer("/auth/register", "register", body,
                         Res(200, [message |-> "User registered successfully",
                                   token |-> token,
                                   user |-> [id |-> Str(NumStr(userId)), email |-> email,
                                             name |-> name]]),
                         <<Call("getUserByEmail", "null"), Call("createUserWithPin", out)>>)

(***************************************************************************)
(* A request to the savings router: router.use(optionalAuthMiddleware),    *)
(* then the route that matches its method and path.                        *)
(***************************************************************************)
Receive ==
  /\ pc = "idle"
  /\ \E m \in Methods, p \in Paths, h \in Headers(now, issued) :
       req' = Request(m, p, h, Undef, Undef, Undef)
  /\ pc' = "optional"
  /\ responses' = <<>>
  /\ nextCalls' = NoCalls
  /\ invoked' = "none"
  /\ last' = NoLast
  /\ dbCalls' = <<>>
  /\ UNCHANGED <<ext, now, users, issued>>

\* one middleware runs on the request in flight; after is where the request
\* goes when the middleware called next()
RunMiddleware(name, o, after) ==
  /\ req' = o.req
  /\ responses' = responses \o o.sent
  /\ nextCalls' = [nextCalls EXCEPT ![name] = @ + o.nexts]
  /\ last' = [mw |-> name, before |-> req, at |-> now, nexts |-> o.nexts, sent |-> o.sent]
  /\ pc' = IF o.nexts > 0 THEN after ELSE "done"
  /\ UNCHANGED <<ext, now, users, issued, invoked, dbCalls>>

OptionalAuth ==
  /\ pc = "optional"
  /\ RunMiddleware("optional", optionalAuthMiddleware(req, now), "route")

\* router.get('/status', ...) and router.get('/insights', ...)
RouteDemo ==
  /\ pc = "route"
  /\ req.method = "GET"
  /\ req.path \in DOMAIN DemoRoutes
  /\ responses' = responses \o DemoBranch(req).sent
  /\ invoked' = DemoBranch(req).invoked
  /\ pc' = "done"
  /\ UNCHANGED <<ext, now, users, issued, req, nextCalls, last, dbCalls>>

\* router.post(path, requireAuthMiddleware, handler)
RouteGuarded ==
  /\ pc = "route"
  /\ req.method = "POST"
  /\ req.path \in DOMAIN MutatingRoutes
  /\ pc' = "require"
  /\ UNCHANGED <<ext, now, users, issued, req, responses, nextCalls, invoked, last, dbCalls>>

\* no route of the router matches: the request leaves the router
RouteUnmatched ==
  /\ pc = "route"
  /\ ~(req.method = "GET" /\ req.path \in DOMAIN DemoRoutes)
  /\ ~(req.method = "POST" /\ req.path \in DOMAIN MutatingRoutes)
  /\ invoked' = "unmatched"
  /\ pc' = "done"
  /\ UNCHANGED <<ext, now, users, issued, req, responses, nextCalls, last, dbCalls>>

RequireAuth ==
  /\ pc = "require"
  /\ RunMiddleware("require", requireAuthMiddleware(req, now), "handler")

\* lock, unlock, createPlan, checkTransaction, processTransaction,
\* triggerAutoSave: the controller behind the guard is entered
Handler ==
  /\ pc = "handler"
  /\ invoked' = MutatingRoutes[req.path]
  /\ pc' = "done"
  /\ UNCHANGED <<ext, now, users, issued, req, responses, nextCalls, last, dbCalls>>

Complete ==
  /\ pc = "done"
  /\ pc' = "idle"
  /\ req' = NoRequest
  /\ responses' = <<>>
  /\ nextCalls' = NoCalls
  /\ invoked' = "none"
  /\ last' = NoLast
  /\ dbCalls' = <<>>
  /\ UNCHANGED <<ext, now, users, issued>>

Next ==
  \/ Tick
  \/ verify
  \/ guestLogin
  \/ login
  \/ register
  \/ Receive
  \/ OptionalAuth
  \/ RouteDemo
  \/ RouteGuarded
  \/ RouteUnmatched
  \/ RequireAuth
  \/ Handler
  \/ Complete

Spec == Init /\ [][Next]_vars

(***************************************************************************)
(* The middlewares on their own: each exported middleware applied to any   *)
(* request, whatever an earlier middleware left on it.                     *)
(***************************************************************************)
PriorFields ==
  {<<Undef, Undef, Undef>>,
   <<Undef, Bool(TRUE), Undef>>,
   <<Num(7), Bool(FALSE), User(Str("7"), Str("old@x.io"), Str("Old"), Bool(FALSE))>>,
   <<Num(7), Bool(TRUE), User(Str("7"), Null, Str("Guest User"), Bool(TRUE))>>}

MwReceive ==
  /\ pc = "idle"
  /\ \E m \in Methods, h \in Headers(now, issued), f \in PriorFields :
       req' = Request(m, "/", h, f[1], f[2], f[3])
  /\ pc' = "mw"
  /\ responses' = <<>>
  /\ nextCalls' = NoCalls
  /\ invoked' = "none"
  /\ last' = NoLast
  /\ dbCalls' = <<>>
  /\ UNCHANGED <<ext, now, users, issued>>

MwOptional ==
  /\ pc = "mw"
  /\ RunMiddleware("optional", optionalAuthMiddleware(req, now), "done")

MwRequire ==
  /\ pc = "mw"
  /\ RunMiddleware("require", requireAuthMiddleware(req, now), "done")

NextMw ==
  \/ Tick
  \/ verify
  \/ guestLogin
  \/ login
  \/ register
  \/ MwReceive
  \/ MwOptional
  \/ MwRequire
  \/ Complete

SpecMw == Init /\ [][NextMw]_vars

(***************************************************************************)
(* Concurrent requests in the access layer.  Express hands every request   *)
(* its own req object; the steps of different requests interleave, and so  *)
(* do token issuance and the clock.                                        *)
(***************************************************************************)
MaxConcIssued == 1

\* a read, a mutation and the preflight of a mutation
ConcRequests == {<<"GET", "/status">>, <<"POST", "/lock">>, <<"OPTIONS", "/lock">>}

ConcHeaders(t, toks) ==
  {NoHeader, Header(<<Text("Bearer")>>), Header(<<Text("Bearer"), Text("garbage")>>)}
  \cup {Header(<<Text("Bearer"), tok>>) : tok \in toks}

MiddlewareOf(name, r, t) ==
  IF name = "optional" THEN optionalAuthMiddleware(r, t) ELSE requireAuthMiddleware(r, t)

\* the middleware of flight i keeping the identity it decoded last, for
\* whichever request that was
ConcOutcome_LastIdentity(i, name) ==
  LET o == MiddlewareOf(name, flights[i].req, now)
      others == {j \in 1..NFlights : j # i /\ flights[j].req.userId # Undef}
  IN IF others = {} \/ o.req.userId # Undef THEN o
     ELSE LET j == CHOOSE k \in others : TRUE
          IN Outcome([o.req EXCEPT !.userId = flights[j].req.userId,
                                   !.isGuest = flights[j].req.isGuest,
                                   !.user = flights[j].req.user],
                     o.nexts, o.sent)

\* what a middleware does with the request of flight i
ConcOutcome(i, name) == MiddlewareOf(name, flights[i].req, now)

\* a request enters the lowest free slot
ConcReceive(i) ==
  /\ flights[i].pc = "idle"
  /\ \A j \in 1..(i - 1) : flights[j].pc # "idle"
  /\ \E mp \in ConcRequests, h \in ConcHeaders(now, issued) :
       flights' = [flights EXCEPT ![i] =
                     [pc |-> "optional", req |-> Request(mp[1], mp[2], h, Undef, Undef, Undef),
                      last |-> NoLast]]
  /\ UNCHANGED <<now, users, issued, pc, req, responses, nextCalls, invoked, last, dbCalls,
                  running, replies, client, resets, profiles>>

ConcRun(i, name, after) ==
  LET o == ConcOutcome(i, name) IN
  /\ flights' = [flights EXCEPT ![i] =
                   [pc |-> IF o.nexts > 0 THEN after ELSE "done",
                    req |-> o.req,
                    last |-> [mw |-> name, before |-> flights[i].req, at |-> now,
                              nexts |-> o.nexts, sent |-> o.sent]]]
  /\ UNCHANGED <<now, users, issued, pc, req, responses, nextCalls, invoked, last, dbCalls,
                  running, replies, client, resets, profiles>>

ConcOptional(i) ==
  /\ flights[i].pc = "optional"
  /\ ConcRun(i, "optional",
       IF flights[i].req.method = "POST" /\ flights[i].req.path \in DOMAIN MutatingRoutes
       THEN "require" ELSE "done")

ConcRequire(i) ==
  /\ flights[i].pc = "require"
  /\ ConcRun(i, "require", "done")

ConcComplete(i) ==
  /\ flights[i].pc = "done"
  /\ flights' = [flights EXCEPT ![i] = NoFlight]
  /\ UNCHANGED <<now, users, issued, pc, req, responses, nextCalls, invoked, last, dbCalls,
                  running, replies, client, resets, profiles>>

\* a client obtains a token while requests are in flight
ConcIssue ==
  /\ Cardinality(issued) < MaxConcIssued
  /\ (guestLogin \/ register)
  /\ issued' # issued

NextConc ==
  \/ Tick
  \/ ConcIssue
  \/ Complete
  \/ \E i \in 1..NFlights :
       \/ ConcReceive(i)
       \/ ConcOptional(i)
       \/ ConcRequire(i)
       \/ ConcComplete(i)

SpecConc == InitConc /\ [][NextConc]_vars

(***************************************************************************)
(* Concurrent auth handlers.  Each handler is an async function: it runs   *)
(* up to an await, and the handlers of other requests run in between.      *)
(* A statement of the store is atomic.                                     *)
(***************************************************************************)
ConcRnd == {"k3x9q2m1z", "p7w4t8s2b"}

MaxConcTime == 1

\* the clock moves while handlers stand at their awaits
ConcTick ==
  /\ now < MaxConcTime
  /\ Tick

coreVars == <<pc, req, responses, nextCalls, invoked, last, dbCalls, flights, client,
              resets, profiles>>

\* INSERT INTO users without the UNIQUE constraint on email
InsertOutcome_NoUnique(email, db) == db

\* INSERT INTO users: the statement fails when the email is taken
InsertOutcome(email, db) == IF db = "ok" /\ EmailTaken(email) THEN "throw" ELSE db

\* lines 22-29: guestLogin up to its await of createGuestUser
GuestStart(i) ==
  /\ running[i].pc = "idle"
  /\ \E rnd \in ConcRnd :
       running' = [running EXCEPT ![i] =
                   [NoCall EXCEPT !.pc = "create", !.op = "guestLogin", !.at = now,
                      !.email = "guest_" \o NumStr(now) \o "_" \o rnd \o "@guest.capstack.local"]]
  /\ UNCHANGED <<now, users, issued, replies, coreVars>>

\* line 29: createGuestUser runs in the store
GuestCreate(i) ==
  /\ running[i].pc = "create"
  /\ running[i].op = "guestLogin"
  /\ \E db \in {"ok", "zero", "throw"} :
       LET out == InsertOutcome(running[i].email, db) IN
       /\ out = "ok" => Cardinality(users) < MaxUsers
       /\ users' = IF out = "ok"
                   THEN users \cup {UserRow(NextId, running[i].email, "Guest User", DefaultGuestPin)}
                   ELSE users
       /\ running' = [running EXCEPT ![i].pc = "respond", ![i].out = out,
                                 ![i].userId = IF out = "ok" THEN NextId ELSE 0]
  /\ UNCHANGED <<now, issued, replies, coreVars>>

\* lines 31-49: guestLogin after the await
GuestRespond(i) ==
  /\ running[i].pc = "respond"
  /\ running[i].op = "guestLogin"
  /\ IF running[i].out = "ok"
     THEN LET token == GuestToken(running[i].userId, running[i].email, "Guest User", now)
              res == Res(200, [token |-> token,
                               user |-> User(Str(NumStr(running[i].userId)), Str(running[i].email),
                                             Str("Guest User"), Bool(TRUE))])
          IN /\ issued' = issued \cup {token}
             /\ running' = [running EXCEPT ![i].pc = "done", ![i].res = res]
             /\ replies' = Append(replies, res.body)
     ELSE /\ running' = [running EXCEPT ![i].pc = "done", ![i].res = GuestSessionFailed]
          /\ UNCHANGED <<issued, replies>>
  /\ UNCHANGED <<now, users, coreVars>>

\* the response is on the wire; the slot takes the next call
CallComplete(i) ==
  /\ running[i].pc = "done"
  /\ running' = [running EXCEPT ![i] = NoCall]
  /\ UNCHANGED <<now, users, issued, replies, coreVars>>

NextGuests ==
  \/ ConcTick
  \/ \E i \in 1..NCalls :
       \/ GuestStart(i)
       \/ GuestCreate(i)
       \/ GuestRespond(i)
       \/ CallComplete(i)

SpecGuests == InitCalls /\ [][NextGuests]_vars

(***************************************************************************)
(* Concurrent register calls.                                              *)
(***************************************************************************)
RegisterFailed ==
  Res(500, [error |-> "Registration failed. Please try again.", details |-> StoreErrorMessage])

\* lines 95-107: register up to its await of getUserByEmail
RegStart(i) ==
  /\ running[i].pc = "idle"
  /\ \E email \in {Str(e) : e \in Emails},
        pin \in {Chars(p) : p \in Pins},
        name \in {Undef} \cup {Str(n) : n \in Names} :
       LET body == AuthBody(email, pin, name)
           call == [NoCall EXCEPT !.op = "register", !.body = body, !.at = now,
                                  !.email = email.s]
       IN running' = [running EXCEPT ![i] =
            IF ~Truthy(email) \/ ~Truthy(pin) \/ ~Truthy(name)
            THEN [call EXCEPT !.pc = "done",
                              !.res = Res(400, [error |-> "Email, PIN, and name are required"])]
            ELSE IF ~IsFourDigits(pin.c)
            THEN [call EXCEPT !.pc = "done",
                              !.res = Res(400, [error |-> "PIN must be exactly 4 digits"])]
            ELSE [call EXCEPT !.pc = "lookup"]]
  /\ UNCHANGED <<now, users, issued, replies, coreVars>>

\* lines 107-113: getUserByEmail runs in the store, and register goes on to
\* its await of createUserWithPin
RegLookup(i) ==
  /\ running[i].pc = "lookup"
  /\ \E lookup \in {"ok", "throw"} :
       running' = [running EXCEPT ![i] =
         IF lookup = "throw" THEN [@ EXCEPT !.pc = "done", !.res = RegisterFailed]
         ELSE IF existingUser(running[i].email) # {}
         THEN [@ EXCEPT !.pc = "done",
                        !.res = Res(400, [error |-> "User already exists with this email"])]
         ELSE [@ EXCEPT !.pc = "create"]]
  /\ UNCHANGED <<now, users, issued, replies, coreVars>>

\* line 113: createUserWithPin runs in the store
RegCreate(i) ==
  /\ running[i].pc = "create"
  /\ running[i].op = "register"
  /\ \E db \in {"ok", "zero", "throw"} :
       LET out == InsertOutcome(running[i].email, db) IN
       /\ out = "ok" => Cardinality(users) < MaxUsers
       /\ users' = IF out = "ok"
                   THEN users \cup {UserRow(NextId, running[i].email, running[i].body.name.s,
                                            running[i].body.pin.c)}
                   ELSE users
       /\ running' = [running EXCEPT ![i].pc = "respond", ![i].out = out,
                                     ![i].userId = IF out = "ok" THEN NextId ELSE 0]
  /\ UNCHANGED <<now, issued, replies, coreVars>>

\* lines 115-137: register after the await
RegRespond(i) ==
  /\ running[i].pc = "respond"
  /\ running[i].op = "register"
  /\ IF running[i].out = "ok"
     THEN LET body == running[i].body
              token == RegisterToken(running[i].userId, body.email, body.name, now)
              res == Res(200, [message |-> "User registered successfully",
                               token |-> token,
                               user |-> [id |-> Str(NumStr(running[i].userId)),
                                         email |-> body.email, name |-> body.name]])
          IN /\ issued' = issued \cup {token}
             /\ running' = [running EXCEPT ![i].pc = "done", ![i].res = res]
             /\ replies' = Append(replies, res.body)
     ELSE /\ running' = [running EXCEPT ![i].pc = "done", ![i].res =
               IF running[i].out = "zero"
               THEN Res(500, [error |-> "Failed to create user account. Please try again."])
               ELSE RegisterFailed]
          /\ UNCHANGED <<issued, replies>>
  /\ UNCHANGED <<now, users, coreVars>>

NextRegister ==
  \/ ConcTick
  \/ \E i \in 1..NCalls :
       \/ RegStart(i)
       \/ RegLookup(i)
       \/ RegCreate(i)
       \/ RegRespond(i)
       \/ CallComplete(i)

SpecRegister == InitCalls /\ [][NextRegister]_vars

(***************************************************************************)
(* The browser client: localStorage, the axios instance with its request   *)
(* interceptor, AuthProvider and the login page.  The client clock and the *)
(* server clock are the same clock.                                        *)
(***************************************************************************)
\* a JavaScript object, as the map from its keys to their values
Obj(claims) == [t |-> "object", claims |-> claims]

\* key in obj
In(key, obj) == key \in DOMAIN obj.claims

\* obj.key
Get(obj, key) == IF obj.t = "object" /\ key \in DOMAIN obj.claims THEN obj.claims[key] ELSE Undef

\* a token made outside the server, with any payload
Crafted(payload) == [k |-> "crafted", payload |-> payload]

\* jwt.decode(token), and the JSON.parse of the payload segment in
\* isTokenExpired: null when the item has no JWT structure, a string when
\* the payload is not an object
JwtDecode(item) ==
  CASE item.k = "jwt" -> Obj(Decoded(item))
    [] item.k = "crafted" -> item.payload
    [] OTHER -> Null

\* v <= n for a number n, as JavaScript compares: a string that is not a
\* number and undefined become NaN, null becomes 0, a boolean 0 or 1
LeNumber(v, n) ==
  CASE v.t = "number" -> v.n <= n
    [] v.t = "null" -> 0 <= n
    [] v.t = "boolean" -> (IF v.b THEN 1 ELSE 0) <= n
    [] OTHER -> FALSE

\* axiosClient.ts lines 11-31
isTokenExpired(item, t) ==
  IF item = NoItem THEN TRUE
  ELSE IF item.k = "text" THEN TRUE
  ELSE LET payload == JwtDecode(item) IN
    IF ~Truthy(payload) \/ payload.t # "object" THEN TRUE
    ELSE IF ~Truthy(Get(payload, "exp")) THEN TRUE
    ELSE LeNumber(Get(payload, "exp"), t)

\* what localStorage can hold when the application starts
StoredItems ==
  {NoItem, Text("garbage"), Crafted(Str("hello")),
   Crafted(Obj([userId |-> Num(1), name |-> Str("Ann")])),
   Crafted(Obj([userId |-> Num(1), exp |-> Null])),
   Crafted(Obj([userId |-> Num(1), exp |-> Str("never")])),
   Crafted(Obj([id |-> Num(5), exp |-> Num(3)])),
   JwtSign(Payload(Num(1), Str("ann@x.io"), Str("Ann"), Bool(FALSE)), jwtSecret, 0),
   JwtSign(Payload(Num(2), Str("guest_0_k3x9q2m1z@guest.capstack.local"), Str("Guest User"),
                   Bool(TRUE)), jwtSecret, 0)}

InitClient ==
  /\ InitServer
  /\ flights = <<>>
  /\ running = <<>>
  /\ replies = <<>>
  /\ \E item \in StoredItems : client = Browser(item)
  /\ resets = Off
  /\ profiles = Off

serverVars == <<now, users, issued, pc, req, responses, nextCalls, invoked, last, dbCalls,
                flights, running, replies, resets, profiles>>

\* part_005 lines 165-208: initializeAuth, run once by the effect of
\* AuthProvider; it has no await
initializeAuth ==
  /\ client.pc = "mount"
  /\ LET token == client.storage
         decoded == JwtDecode(token)
     IN client' =
          IF token = NoItem
          THEN [client EXCEPT !.pc = "ready", !.user = Null, !.loading = FALSE]
          ELSE IF ~Truthy(decoded) \/ decoded.t # "object" \/ ~In("exp", decoded)
          THEN [client EXCEPT !.pc = "ready", !.storage = NoItem, !.user = Null,
                              !.loading = FALSE]
          ELSE IF LeNumber(Get(decoded, "exp"), now)
          THEN [client EXCEPT !.pc = "ready", !.storage = NoItem, !.user = Null,
                              !.loading = FALSE]
          ELSE [client EXCEPT !.pc = "ready", !.loading = FALSE,
                  !.user = User(Or(OptToString(Get(decoded, "userId")),
                                   Or(OptToString(Get(decoded, "id")), Str("1"))),
                                Or(Get(decoded, "email"), Null),
                                Or(Get(decoded, "name"), Str("User")),
                                Or(Get(decoded, "isGuest"), Bool(FALSE)))]
  /\ UNCHANGED serverVars

\* part_005 lines 220-223
logout ==
  /\ client.pc = "ready"
  /\ client' = [client EXCEPT !.storage = NoItem, !.user = Null]
  /\ UNCHANGED serverVars

\* part_003 lines 219-224 and the request interceptor (axiosClient.ts lines
\* 33-55): handleGuestLogin up to the moment its request is sent or rejected
handleGuestLogin ==
  /\ client.pc = "ready"
  /\ LET token == client.storage
         attempt == [op |-> "guest", hadToken |-> token # NoItem, sent |-> FALSE, status |-> 0]
     IN client' =
          IF token = NoItem \/ isTokenExpired(token, now)
          THEN [client EXCEPT !.storage = NoItem, !.pageLoading = FALSE,
                              !.pageError = "Token missing or expired",
                              !.attempt = attempt]
          ELSE [client EXCEPT !.pc = "awaitGuest", !.pageLoading = TRUE, !.pageError = "",
                              !.attempt = [attempt EXCEPT !.sent = TRUE]]
  /\ UNCHANGED serverVars

\* the backend serves the POST /auth/guest that is on the wire
ServeGuest ==
  /\ client.pc = "awaitGuest"
  /\ guestLogin

\* login(token, userData) of AuthProvider: the token without a leading
\* "Bearer "
RawToken(token) == IF token.k = "prefixed" THEN token.inner ELSE token

\* part_003 lines 225-243: handleGuestLogin after its await
GuestReply ==
  /\ client.pc = "awaitGuest"
  /\ pc = "done"
  /\ invoked = "guestLogin"
  /\ LET res == responses[1] IN
     client' =
       IF res.status = 200
       THEN [client EXCEPT
               !.pc = "ready", !.pageLoading = FALSE,
               !.attempt.status = res.status,
               !.storage = RawToken(res.body.token),
               !.user = User(Or(OptToString(res.body.user.id), Str("0")),
                             Or(res.body.user.email, Null),
                             Or(res.body.user.name, Str("Guest User")),
                             Or(res.body.user.isGuest, Bool(TRUE)))]
       ELSE [client EXCEPT !.pc = "ready", !.pageLoading = FALSE,
                           !.attempt.status = res.status,
                           !.pageError = res.body.error]
  /\ pc' = "idle"
  /\ req' = NoRequest
  /\ responses' = <<>>
  /\ nextCalls' = NoCalls
  /\ invoked' = "none"
  /\ last' = NoLast
  /\ dbCalls' = <<>>
  /\ UNCHANGED <<now, users, issued, flights, running, replies, resets, profiles>>

NextClient ==
  \/ Tick
  \/ initializeAuth
  \/ logout
  \/ handleGuestLogin
  \/ ServeGuest
  \/ GuestReply

SpecClient == InitClient /\ [][NextClient]_vars

(***************************************************************************)
(* Password reset (the password controller).  resetPassword runs as one    *)
(* call per request; a call stands at one of its awaits, and other calls   *)
(* run in between.  The clock of this part counts minutes in steps of five.*)
(***************************************************************************)
MinutesPerStep == 5
MaxResetClock == 20
MaxResetCalls == 3
ResetLifetime == 15

resetFrame == <<now, users, issued, pc, req, responses, nextCalls, invoked, last, dbCalls,
                flights, running, replies, client, profiles>>

ResetTick ==
  /\ resets.clock < MaxResetClock
  /\ resets' = [resets EXCEPT !.clock = @ + MinutesPerStep]
  /\ UNCHANGED resetFrame

\* the place of a token in ResetTokens, 0 for any other value
TokenIndex(token) ==
  IF token.t = "string" /\ \E t \in 1..Len(ResetTokens) : ResetTokens[t] = token.s
  THEN CHOOSE t \in 1..Len(ResetTokens) : ResetTokens[t] = token.s
  ELSE 0

\* requestPasswordReset for the email of the user (lines 100-110): INSERT ...
\* ON CONFLICT (user_id) DO UPDATE keeps one row for the user, and its id
RequestReset ==
  /\ resets.made < Len(ResetTokens)
  /\ resets' = [resets EXCEPT
       !.made = @ + 1,
       !.row = [id |-> 1, user_id |-> 1, token |-> ResetTokens[resets.made + 1],
                expires_at |-> resets.clock + ResetLifetime, used |-> FALSE]]
  /\ UNCHANGED resetFrame

\* SELECT ... WHERE pr.token = $1 AND pr.used = false AND pr.expires_at > NOW()
ValidResetRows(token) ==
  IF /\ resets.row # NoResetRow
     /\ token.t = "string"
     /\ resets.row.token = token.s
     /\ ~resets.row.used
     /\ resets.row.expires_at > resets.clock
  THEN <<resets.row>>
  ELSE <<>>

ResetBodies ==
  [token : {Undef, Str("ffff")} \cup {Str(ResetTokens[t]) : t \in 1..Len(ResetTokens)},
   newPassword : {Undef, Str("hunter2"), Str("s3cret")}]

\* lines 141-147
ResetStart(i) ==
  /\ resets.calls[i].pc = "idle"
  /\ resets.started < MaxResetCalls
  /\ \E body \in ResetBodies :
       resets' = [resets EXCEPT
         !.started = @ + 1,
         !.calls[i] =
           IF ~Truthy(body.token) \/ ~Truthy(body.newPassword)
           THEN [NoResetCall EXCEPT
                   !.pc = "done", !.token = body.token, !.newPassword = body.newPassword,
                   !.res = [status |-> 400,
                            body |-> [error |-> "Token and new password are required"]]]
           ELSE [NoResetCall EXCEPT
                   !.pc = "select", !.token = body.token, !.newPassword = body.newPassword]]
  /\ UNCHANGED resetFrame

ResetFailed == [status |-> 500, body |-> [error |-> "Internal server error"]]

\* lines 149-161: the SELECT and the test of its rows
ResetSelect(i) ==
  /\ resets.calls[i].pc = "select"
  /\ \E db \in {"ok", "throw"} :
       LET rows == ValidResetRows(resets.calls[i].token) IN
       resets' = [resets EXCEPT !.calls[i] =
         IF db = "throw" THEN [@ EXCEPT !.pc = "done", !.res = ResetFailed]
         ELSE IF Len(rows) = 0
         THEN [@ EXCEPT !.pc = "done",
                        !.res = [status |-> 400,
                                 body |-> [error |-> "Invalid or expired reset token"]]]
         ELSE [@ EXCEPT !.pc = "update", !.resetRecord = rows[1]]]
  /\ UNCHANGED resetFrame

\* lines 163-168: bcrypt.hash and UPDATE users SET password
ResetUpdate(i) ==
  /\ resets.calls[i].pc = "update"
  /\ \E db \in {"ok", "throw"} :
       resets' =
         IF db = "throw"
         THEN [resets EXCEPT !.calls[i] = [@ EXCEPT !.pc = "done", !.res = ResetFailed]]
         ELSE [resets EXCEPT
                 !.password = Hash(resets.calls[i].newPassword.s),
                 !.wrote[TokenIndex(resets.calls[i].token)] = @ + 1,
                 !.calls[i] = [@ EXCEPT !.pc = "mark"]]
  /\ UNCHANGED resetFrame

\* lines 170-173: UPDATE password_resets SET used = true WHERE id = $1, and
\* the answer
ResetMark(i) ==
  /\ resets.calls[i].pc = "mark"
  /\ \E db \in {"ok", "throw"} :
       resets' =
         IF db = "throw"
         THEN [resets EXCEPT !.calls[i] = [@ EXCEPT !.pc = "done", !.res = ResetFailed]]
         ELSE [resets EXCEPT
                 !.row = IF resets.row.id = resets.calls[i].resetRecord.id
                         THEN [@ EXCEPT !.used = TRUE] ELSE @,
                 !.succeeded[TokenIndex(resets.calls[i].token)] = @ + 1,
                 !.calls[i] = [@ EXCEPT !.pc = "done",
                                 !.res = [status |-> 200,
                                          body |-> [message |-> "Password reset successfully"]]]]
  /\ UNCHANGED resetFrame

\* the response has gone out
ResetComplete(i) ==
  /\ resets.calls[i].pc = "done"
  /\ resets' = [resets EXCEPT !.calls[i] = NoResetCall]
  /\ UNCHANGED resetFrame

NextReset ==
  \/ ResetTick
  \/ RequestReset
  \/ \E i \in 1..NResetCalls :
       \/ ResetStart(i)
       \/ ResetSelect(i)
       \/ ResetUpdate(i)
       \/ ResetMark(i)
       \/ ResetComplete(i)

SpecReset == InitReset /\ [][NextReset]_vars

(***************************************************************************)
(* Profile update (the user controller).  updateProfile sends two          *)
(* statements, each awaited on its own: UPDATE users, then the upsert of   *)
(* user_profiles.  A statement that fails changes nothing and rejects.     *)
(***************************************************************************)
MaxUpdates == 3

profileFrame == <<now, users, issued, pc, req, responses, nextCalls, invoked, last, dbCalls,
                  flights, running, replies, client, resets>>

UpdateBodies ==
  [name : {Undef, Str(""), Str("Bob")},
   email : {Undef, Str("bob@x.io")},
   location : {Undef, Str("Pune")},
   savings_rate : {Undef, Num(2)}]

\* lines 44-60: the body is read; the UPDATE of users is skipped when neither
\* name nor email is given
UpdateStart ==
  /\ profiles.call.pc = "idle"
  /\ profiles.started < MaxUpdates
  /\ \E body \in UpdateBodies :
       profiles' = [profiles EXCEPT
         !.started = @ + 1,
         !.call = [pc |-> IF Truthy(body.name) \/ Truthy(body.email) THEN "users"
                          ELSE "profile",
                   body |-> body,
                   userBefore |-> profiles.user, profileBefore |-> profiles.profile,
                   res |-> [status |-> 0]]]
  /\ UNCHANGED profileFrame

UpdateFailed == [status |-> 500, body |-> [error |-> "Failed to update profile"]]

\* lines 61-84: UPDATE users SET name = ..., email = ... WHERE id = userId
UserAfter(user, body) ==
  [user EXCEPT !.name = IF Truthy(body.name) THEN body.name ELSE @,
               !.email = IF Truthy(body.email) THEN body.email ELSE @]

UpdateUsers ==
  /\ profiles.call.pc = "users"
  /\ \E db \in {"ok", "throw"} :
       profiles' =
         IF db = "throw"
         THEN [profiles EXCEPT !.call.pc = "done", !.call.res = UpdateFailed]
         ELSE [profiles EXCEPT !.user = UserAfter(@, profiles.call.body),
                               !.call.pc = "profile"]
  /\ UNCHANGED profileFrame

\* lines 88-116: the row the upsert leaves for the user
ProfileAfter(body) ==
  [user_id |-> 1,
   monthly_income |-> Num(0), monthly_expenses |-> Num(0), emergency_fund |-> Num(0),
   savings_rate |-> Or(body.savings_rate, Num(0)),
   location |-> Or(body.location, Null),
   industry |-> Null, experience_years |-> Null]

\* lines 105-118: the upsert and the answer
UpdateProfileRow ==
  /\ profiles.call.pc = "profile"
  /\ \E db \in {"ok", "throw"} :
       profiles' =
         IF db = "throw"
         THEN [profiles EXCEPT !.call.pc = "done", !.call.res = UpdateFailed]
         ELSE [profiles EXCEPT
                 !.profile = ProfileAfter(profiles.call.body),
                 !.call.pc = "done",
                 !.call.res = [status |-> 200,
                               body |-> [message |-> "Profile updated successfully"]]]
  /\ UNCHANGED profileFrame

\* the response has gone out
UpdateComplete ==
  /\ profiles.call.pc = "done"
  /\ profiles' = [profiles EXCEPT !.call = NoUpdate]
  /\ UNCHANGED profileFrame

NextProfile ==
  \/ UpdateStart
  \/ UpdateUsers
  \/ UpdateProfileRow
  \/ UpdateComplete

SpecProfile == InitProfile /\ [][NextProfile]_vars

(***************************************************************************)
(* Properties.                                                             *)
(***************************************************************************)
\* the request carries a token segment: a non-empty second segment
CarriesToken(r) ==
  /\ r.authorization.present
  /\ Len(r.authorization.segs) >= 2
  /\ r.authorization.segs[2] # Text("")

CarriedToken(r) == r.authorization.segs[2]

\* the token was signed by this server and has not expired at time t
ValidAt(tok, t) == tok \in issued /\ t < tok.exp

CarriesValidToken(r, t) == CarriesToken(r) /\ ValidAt(CarriedToken(r), t)

\* C1: a mutating savings handler is invoked only for a POST to its route
\* that passed optionalAuthMiddleware and then requireAuthMiddleware and
\* carries a token that is signature- and expiry-valid and whose isGuest
\* flag is not true.
C1_MutationNeedsFullAuth ==
  invoked \in MutatingHandlers =>
    /\ req.method = "POST"
    /\ req.path \in DOMAIN MutatingRoutes
    /\ invoked = MutatingRoutes[req.path]
    /\ nextCalls = [optional |-> 1, require |-> 1]
    /\ last.mw = "require"
    /\ CarriesValidToken(req, last.at)
    /\ CarriedToken(req).payload.isGuest # Bool(TRUE)

C1_Witness ==
  /\ invoked = "processTransaction"
  /\ CarriedToken(req).payload.isGuest = Undef

\* C2: optionalAuthMiddleware writes no response and running next() exactly
\* once, for every method, header and token, so the request always goes on
\* to the routes.
C2_OptionalNeverRejects ==
  last.mw = "optional" =>
    /\ last.nexts = 1
    /\ last.sent = <<>>
    /\ nextCalls.optional = 1
    /\ pc \in {"route", "require", "done"}
    /\ (pc = "done" => invoked # "none")
    /\ (invoked \in {"none", "unmatched"} => responses = <<>>)

C2_Witness ==
  /\ last.mw = "optional"
  /\ pc = "route"
  /\ req.method = "POST"
  /\ CarriesToken(req)
  /\ CarriedToken(req) \notin issued

\* C3: a non-OPTIONS request with no Authorization header, with no token
\* segment, or with a token that fails verification leaves
\* optionalAuthMiddleware with req.isGuest true and req.userId and req.user
\* undefined, whatever they were before.
C3_FailuresAreAnonymous ==
  ( /\ last.mw = "optional"
    /\ last.before.method # "OPTIONS"
    /\ ~CarriesValidToken(last.before, last.at) ) =>
    /\ req.isGuest = Bool(TRUE)
    /\ req.userId = Undef
    /\ req.user = Undef

C3_Witness ==
  /\ last.mw = "optional"
  /\ last.before.method = "GET"
  /\ last.before.userId = Num(7)
  /\ last.before.user # Undef
  /\ CarriesToken(last.before)
  /\ CarriedToken(last.before) \in issued
  /\ last.at >= CarriedToken(last.before).exp
  /\ req.userId = Undef

\* C4: a non-OPTIONS request with a valid token leaves optionalAuthMiddleware
\* classified guest when the token's isGuest flag is true and authenticated
\* otherwise (also when the token has no isGuest claim), with req.userId the
\* token's userId and req.user its userId as a string, its email and its
\* name, and req.user.isGuest equal to req.isGuest.
C4_ValidTokenClassified ==
  ( /\ last.mw = "optional"
    /\ last.before.method # "OPTIONS"
    /\ CarriesValidToken(last.before, last.at) ) =>
    LET claims == CarriedToken(last.before).payload IN
    /\ req.isGuest = Bool(claims.isGuest = Bool(TRUE))
    /\ req.userId = claims.userId
    /\ req.user.id = Str(NumStr(claims.userId.n))
    /\ req.user.email = claims.email
    /\ req.user.name = claims.name
    /\ req.user.isGuest = req.isGuest

C4_Witness ==
  /\ last.mw = "optional"
  /\ pc = "route"
  /\ CarriesValidToken(last.before, last.at)
  /\ CarriedToken(last.before).payload.isGuest = Undef
  /\ req.isGuest = Bool(FALSE)
  /\ req.user.id = Str("2")

\* the request reached requireAuthMiddleware with a method other than OPTIONS
Guarded == last.mw = "require" /\ last.before.method # "OPTIONS"

\* the guard answered with exactly this status and nothing else happened:
\* no next(), no handler, the request is over
RejectedWith(status) ==
  /\ Len(last.sent) = 1
  /\ last.sent[1].status = status
  /\ responses = last.sent
  /\ last.nexts = 0
  /\ nextCalls.require = 0
  /\ invoked = "none"
  /\ pc = "done"

\* C5: a request with a valid guest token to a guarded route is answered 403
\* with an error string and requiresRegistration: true, and next() is not
\* called; no other answer of requireAuthMiddleware carries
\* requiresRegistration.
C5_GuestForbidden ==
  last.mw = "require" =>
    LET guest == /\ CarriesValidToken(last.before, last.at)
                 /\ CarriedToken(last.before).payload.isGuest = Bool(TRUE)
    IN /\ guest =>
            /\ RejectedWith(403)
            /\ DOMAIN last.sent[1].body = {"error", "requiresRegistration"}
            /\ last.sent[1].body.error \in STRING
            /\ last.sent[1].body.error # ""
            /\ last.sent[1].body.requiresRegistration = TRUE
       /\ \A i \in 1..Len(last.sent) :
            "requiresRegistration" \in DOMAIN last.sent[i].body => guest

C5_Witness ==
  /\ last.mw = "require"
  /\ req.path = "/plan"
  /\ CarriesValidToken(last.before, last.at)
  /\ CarriedToken(last.before).payload.isGuest = Bool(TRUE)
  /\ Len(responses) = 1
  /\ responses[1].status = 403

\* C6: a request with a valid non-guest token to a guarded route gets no
\* response from requireAuthMiddleware, which running next(); the handler runs
\* with req.isGuest false and req.userId the token's userId.
C6_FullAuthProceeds ==
  ( /\ last.mw = "require"
    /\ CarriesValidToken(last.before, last.at)
    /\ CarriedToken(last.before).payload.isGuest \in {Bool(FALSE), Undef} ) =>
    /\ last.sent = <<>>
    /\ responses = <<>>
    /\ last.nexts = 1
    /\ nextCalls.require = 1
    /\ req.isGuest = Bool(FALSE)
    /\ req.userId = CarriedToken(last.before).payload.userId
    /\ req.user.isGuest = Bool(FALSE)
    /\ pc \in {"handler", "done"}
    /\ (pc = "done" => invoked = MutatingRoutes[req.path])

C6_Witness ==
  /\ last.mw = "require"
  /\ pc = "done"
  /\ invoked = "lock"
  /\ CarriedToken(last.before).payload.isGuest = Bool(FALSE)
  /\ req.userId = Num(1)

\* C7: a non-OPTIONS request without an Authorization header to a guarded
\* route is answered 401 with the "Authentication required ... create an
\* account" error, and the handler is not invoked.
C7_NoHeaderUnauthenticated ==
  (Guarded /\ ~last.before.authorization.present) =>
    /\ RejectedWith(401)
    /\ last.sent[1].body =
         [error |-> "Authentication required for this feature. Please create an account."]

C7_Witness ==
  /\ Guarded
  /\ req.path = "/lock"
  /\ ~req.authorization.present
  /\ pc = "done"
  /\ Len(responses) = 1

\* C8 as stated: a non-OPTIONS request to a guarded route whose Authorization
\* header is present but has no token segment is answered 401 "Invalid token
\* format", and the handler is not invoked.
C8_AsStated ==
  (Guarded /\ last.before.authorization.present /\ ~CarriesToken(last.before)) =>
    /\ RejectedWith(401)
    /\ last.sent[1].body = [error |-> "Invalid token format"]

\* C8: a non-OPTIONS request to a guarded route whose Authorization header is
\* present with a non-empty value but has no token segment is answered 401
\* "Invalid token format", and the handler is not invoked; a header with an
\* empty value is answered 401 like a missing one.
C8_MalformedUnauthenticated ==
  (Guarded /\ last.before.authorization.present /\ ~CarriesToken(last.before)) =>
    /\ RejectedWith(401)
    /\ last.sent[1].body =
         IF last.before.authorization.segs = <<Text("")>>
         THEN [error |-> "Authentication required for this feature. Please create an account."]
         ELSE [error |-> "Invalid token format"]

C8_Witness ==
  /\ Guarded
  /\ req.authorization = Header(<<Text("Bearer"), Text("")>>)
  /\ Len(responses) = 1
  /\ responses[1].body = [error |-> "Invalid token format"]

\* C9: a non-OPTIONS request to a guarded route whose token fails signature
\* verification or is expired is answered 401, never 403 and never passed on,
\* and requireAuthMiddleware attaches no identity: the request keeps what it
\* had, which is no identity at all when the signature is not the server's.
C9_InvalidTokenUnauthenticated ==
  ( /\ Guarded
    /\ CarriesToken(last.before)
    /\ ~ValidAt(CarriedToken(last.before), last.at) ) =>
    /\ RejectedWith(401)
    /\ req = last.before
    /\ (CarriedToken(last.before) \notin issued =>
          req.userId = Undef /\ req.user = Undef)

C9_Witness ==
  /\ Guarded
  /\ CarriesToken(last.before)
  /\ CarriedToken(last.before) \in issued
  /\ CarriedToken(last.before).payload.isGuest = Bool(FALSE)
  /\ last.at >= CarriedToken(last.before).exp
  /\ Len(responses) = 1
  /\ responses[1].status = 401

\* C10: requireAuthMiddleware does exactly one of two things for every
\* request: it writes exactly one response, 401 or 403, or it running next()
\* exactly once.
C10_RespondsOrContinues ==
  last.mw = "require" =>
    \/ /\ Len(last.sent) = 1
       /\ last.sent[1].status \in {401, 403}
       /\ last.nexts = 0
    \/ /\ last.sent = <<>>
       /\ last.nexts = 1

C10_Witness ==
  /\ last.mw = "require"
  /\ last.before.method = "OPTIONS"
  /\ CarriesValidToken(last.before, last.at)
  /\ CarriedToken(last.before).payload.isGuest = Bool(TRUE)
  /\ last.nexts = 1

\* C11: an OPTIONS request passes through optionalAuthMiddleware and through
\* requireAuthMiddleware unclassified: next() is called once, no response is
\* written, and req.userId, req.isGuest and req.user stay as they were,
\* whatever the Authorization header holds.
C11_PreflightPassesUnclassified ==
  (last.mw \in {"optional", "require"} /\ last.before.method = "OPTIONS") =>
    /\ last.nexts = 1
    /\ last.sent = <<>>
    /\ responses = <<>>
    /\ req = last.before

C11_Witness ==
  /\ last.mw = "require"
  /\ last.before.method = "OPTIONS"
  /\ ~last.before.authorization.present
  /\ last.before.userId = Num(7)
  /\ req.userId = Num(7)
  /\ req.isGuest = Bool(FALSE)

\* a GET /status or GET /insights request of the savings router is over
DemoRequestDone ==
  /\ pc = "done"
  /\ last.mw = "optional"
  /\ req.method = "GET"
  /\ req.path \in {"/status", "/insights"}

\* C12: GET /status and GET /insights answer every anonymous or guest
\* request (no header, no valid token, or a valid guest token) with 200 and
\* the fixed demo payload, which has isGuest: true and a note directing the
\* caller to register; getStatus / getInsights is not called and the store
\* is not accessed.
C12_GuestsGetDemo ==
  ( /\ DemoRequestDone
    /\ \/ ~CarriesValidToken(req, last.at)
       \/ CarriedToken(req).payload.isGuest = Bool(TRUE) ) =>
    /\ invoked = "demo"
    /\ dbCalls = <<>>
    /\ Len(responses) = 1
    /\ responses[1].status = 200
    /\ responses[1].body.isGuest = TRUE
    /\ responses[1].body.note =
         IF req.path = "/status"
         THEN "Demo savings data. Sign up to create and manage real plans."
         ELSE "Demo insights. Create an account to track your own savings discipline."

C12_Witness ==
  /\ DemoRequestDone
  /\ req.path = "/insights"
  /\ CarriesValidToken(req, last.at)
  /\ CarriedToken(req).payload.isGuest = Bool(TRUE)
  /\ invoked = "demo"

\* C13: GET /status and GET /insights delegate every request that
\* optionalAuthMiddleware classified authenticated (valid token whose guest
\* flag is not true) to getStatus / getInsights, and never answer it with
\* the demo payload.
C13_AuthenticatedGetsReal ==
  ( /\ DemoRequestDone
    /\ CarriesValidToken(req, last.at)
    /\ CarriedToken(req).payload.isGuest # Bool(TRUE) ) =>
    /\ invoked = (IF req.path = "/status" THEN "getStatus" ELSE "getInsights")
    /\ responses = <<>>

C13_Witness ==
  /\ DemoRequestDone
  /\ req.path = "/status"
  /\ CarriesValidToken(req, last.at)
  /\ CarriedToken(req).payload.isGuest = Undef
  /\ invoked = "getStatus"

\* C14: on GET /status and GET /insights a request with an expired or
\* signature-invalid token gets the classification and the response of the
\* same request without an Authorization header, and never a 401.
C14_InvalidTokenLikeNoToken ==
  ( /\ DemoRequestDone
    /\ CarriesToken(req)
    /\ ~ValidAt(CarriedToken(req), last.at) ) =>
    LET twin == [last.before EXCEPT !.authorization = NoHeader]
        o == optionalAuthMiddleware(twin, last.at)
        d == DemoBranch(o.req)
    IN /\ req.isGuest = o.req.isGuest
       /\ req.userId = o.req.userId
       /\ req.user = o.req.user
       /\ last.nexts = o.nexts
       /\ last.sent = o.sent
       /\ responses = o.sent \o d.sent
       /\ invoked = d.invoked
       /\ Len(responses) = 1
       /\ responses[1].status = 200

C14_Witness ==
  /\ DemoRequestDone
  /\ CarriesToken(req)
  /\ CarriedToken(req) \in issued
  /\ CarriedToken(req).payload.isGuest = Undef
  /\ last.at >= CarriedToken(req).exp
  /\ req.isGuest = Bool(TRUE)
  /\ Len(responses) = 1

\* guestLogin, login or register has just answered with a token
TokenIssued ==
  /\ pc = "done"
  /\ invoked \in {"guestLogin", "login", "register"}
  /\ responses[1].status = 200

C16_ExpiryInv ==
  /\ \A tok \in issued :
       /\ tok.iat <= now
       /\ tok.exp = tok.iat + 7
       /\ JwtVerify(tok, jwtSecret, now).ok <=> now < tok.iat + 7
       /\ \A t \in 0..(MaxTime + 1) :
            JwtVerify(tok, jwtSecret, t).ok <=> t < tok.iat + 7
  /\ ( /\ pc = "done" /\ invoked = "verify"
       /\ CarriesToken(req) /\ CarriedToken(req) \in issued ) =>
       (responses[1].status = 200 <=> now < CarriedToken(req).iat + 7)

C16_ExpiresAfterSevenDays ==
  /\ []C16_ExpiryInv
  /\ [][ /\ issued \subseteq issued'
         /\ \A tok \in issued :
              ~JwtVerify(tok, jwtSecret, now).ok => ~JwtVerify(tok, jwtSecret, now').ok
       ]_vars

C16_Witness ==
  /\ pc = "done" /\ invoked = "verify"
  /\ CarriesToken(req) /\ CarriedToken(req) \in issued
  /\ now = CarriedToken(req).iat + 7
  /\ responses[1].status = 401
  /\ responses[1].body.error = "jwt expired"

\* the e-mail addresses guestLogin makes up: guest_<Date.now()>_<random>
GuestEmails ==
  {"guest_" \o NumStr(t) \o "_" \o rnd \o "@guest.capstack.local" :
     t \in 0..(MaxTime + 1), rnd \in Rnd}

\* C17: POST /auth/guest with an empty body, when the store yields a
\* non-zero guest user id, returns 200 with a token and a user object with
\* isGuest: true; and a GET /status that carries a token of a guest session
\* before its expiry returns 200 with the fixed demo list of the two named
\* plans and isGuest: true.
C17_GuestSession ==
  /\ ( /\ pc = "done" /\ invoked = "guestLogin"
       /\ dbCalls = <<Call("createGuestUser", "ok")>> ) =>
       /\ req.body = EmptyBody
       /\ Len(responses) = 1
       /\ responses[1].status = 200
       /\ responses[1].body.token \in issued
       /\ responses[1].body.token.iat = now
       /\ responses[1].body.user.isGuest = Bool(TRUE)
       /\ responses[1].body.user.email.s \in GuestEmails
       /\ responses[1].body.token.payload.email = responses[1].body.user.email
  /\ ( /\ DemoRequestDone
       /\ req.path = "/status"
       /\ CarriesValidToken(req, last.at)
       /\ CarriedToken(req).payload.email.s \in GuestEmails ) =>
       /\ Len(responses) = 1
       /\ responses[1].status = 200
       /\ responses[1].body.isGuest = TRUE
       /\ responses[1].body.plans = <<"Emergency Fund", "Vacation Fund">>
       /\ invoked = "demo"

C17_Witness ==
  /\ DemoRequestDone
  /\ req.path = "/status"
  /\ CarriesValidToken(req, last.at)
  /\ CarriedToken(req).payload.email.s \in GuestEmails
  /\ last.at > CarriedToken(req).iat
  /\ responses = <<Res(200, DemoStatusBody)>>

Digits == {"0", "1", "2", "3", "4", "5", "6", "7", "8", "9"}

\* login or register has answered a request whose body has an email and a
\* pin that is not a string of exactly 4 decimal digits
BadPinAnswered ==
  /\ pc = "done"
  /\ invoked \in {"login", "register"}
  /\ Truthy(req.body.email)
  /\ Truthy(req.body.pin)
  /\ req.body.pin.c \notin [1..4 -> Digits]

PinRejected ==
  /\ responses = <<Res(400, [error |-> "PIN must be exactly 4 digits"])>>
  /\ dbCalls = <<>>

\* C18 as stated: login and register answer every request with an email
\* and a pin that is not exactly 4 decimal digits with 400 "PIN must be
\* exactly 4 digits", without querying the store.
C18_AsStated == BadPinAnswered => PinRejected

\* C18: login, and register when the body also has a name, answer a
\* request with an email and a pin that is not exactly 4 decimal digits with
\* 400 "PIN must be exactly 4 digits"; the store is not queried, no user is
\* created and no token is issued.  register without a name answers 400
\* "Email, PIN, and name are required" first.
C18_BadPinRejected ==
  /\ [](BadPinAnswered =>
          IF invoked = "register" /\ ~Truthy(req.body.name)
          THEN /\ responses = <<Res(400, [error |-> "Email, PIN, and name are required"])>>
               /\ dbCalls = <<>>
          ELSE PinRejected)
  /\ [][BadPinAnswered' => (issued' = issued /\ users' = users)]_vars

C18_Witness ==
  /\ BadPinAnswered
  /\ invoked = "register"
  /\ req.body.name = Str("Ann")
  /\ req.body.pin = Chars(<<"1", "2", "3", "4", "5">>)
  /\ PinRejected

\* this step is register answering a well-formed request (email, 4-digit
\* pin, name) for an email that a user already has
SecondRegister ==
  /\ pc = "idle"
  /\ pc' = "done"
  /\ invoked' = "register"
  /\ Truthy(req'.body.email)
  /\ Truthy(req'.body.pin)
  /\ Truthy(req'.body.name)
  /\ req'.body.pin.c \in [1..4 -> Digits]
  /\ \E u \in users : Str(u.email) = req'.body.email

UserExistsAnswer ==
  /\ Len(responses') = 1
  /\ responses'[1].status \in {400, 409}
  /\ responses'[1].body.error = "User already exists with this email"

\* the second registration changed nothing: no user, no token, and every
\* token signed for that email is accepted afterwards, by verify and by
\* requireAuthMiddleware, exactly if it had not expired before
FirstTokenUntouched ==
  /\ users' = users
  /\ issued' = issued
  /\ "token" \notin DOMAIN responses'[1].body
  /\ \A tok \in issued :
       (tok.payload.email = req'.body.email /\ now < tok.exp) =>
         LET h == Header(<<Text("Bearer"), tok>>) IN
         /\ tok \in issued'
         /\ verifyHandler(h, now').status = 200
         /\ requireAuthMiddleware(
              Request("POST", "/lock", h, Undef, Undef, Undef), now').nexts = 1

\* C19 as stated: the second registration of an email always returns 400 or
\* 409 with a "User already exists" error, creates no user, issues no token
\* and leaves the first token valid.
C19_AsStated ==
  [][SecondRegister => (UserExistsAnswer /\ FirstTokenUntouched)]_vars

\* C19: the second registration of an email returns 400 "User already
\* exists with this email" when the lookup of the email answers, and 500
\* "Registration failed. Please try again." when the lookup throws; in both
\* cases it creates no user, issues no token and leaves the first token
\* valid.
C19_SecondRegisterRejected ==
  [][SecondRegister =>
       /\ IF dbCalls' = <<Call("getUserByEmail", "throw")>>
          THEN /\ Len(responses') = 1
               /\ responses'[1].status = 500
               /\ responses'[1].body.error = "Registration failed. Please try again."
          ELSE /\ UserExistsAnswer
               /\ responses'[1].status = 400
               /\ dbCalls' = <<Call("getUserByEmail", "ok")>>
       /\ FirstTokenUntouched]_vars

C19_Witness ==
  /\ pc = "done"
  /\ invoked = "register"
  /\ responses = <<Res(400, [error |-> "User already exists with this email"])>>
  /\ \E tok \in issued :
       /\ tok.payload.email = req.body.email
       /\ tok.payload.isGuest = Undef
       /\ tok.iat < now
       /\ now < tok.exp
       /\ verifyHandler(Header(<<Text("Bearer"), tok>>), now).status = 200

VerifyAnswered ==
  /\ pc = "done"
  /\ invoked = "verify"
  /\ req.path = "/auth/verify"
  /\ Len(responses) = 1

\* 200 {valid: true, payload} with the claims of the carried token
VerifyAccepts ==
  LET tok == CarriedToken(req) IN
  /\ responses[1].status = 200
  /\ responses[1].body.valid = TRUE
  /\ responses[1].body.payload =
       [userId |-> tok.payload.userId, email |-> tok.payload.email,
        name |-> tok.payload.name, isGuest |-> tok.payload.isGuest,
        iat |-> Num(tok.iat), exp |-> Num(tok.iat + 7)]

StoreThrew ==
  /\ pc = "done"
  /\ invoked \in {"guestLogin", "login", "register"}
  /\ \E i \in 1..Len(dbCalls) : dbCalls[i].out = "throw"

\* C21: when a store call throws, guestLogin, login and register answer 500
\* with a generic error message and nothing else: no token, and the message
\* of the exception nowhere in the body.
C21_GenericServerError ==
  StoreThrew =>
    /\ Len(responses) = 1
    /\ responses[1].status = 500
    /\ "token" \notin DOMAIN responses[1].body
    /\ responses[1].body.error \in
         {"Failed to create guest session", "Login failed. Please try again.",
          "Registration failed. Please try again."}
    /\ \A k \in DOMAIN responses[1].body : responses[1].body[k] # StoreErrorMessage

\* the fields a middleware attaches to a request
Attached(r) == <<r.userId, r.isGuest, r.user>>

\* C22: whatever other requests are in flight or came before, what a
\* middleware did to a request (its next() running, its responses and the
\* fields it attached) is what it does to a fresh request with the same
\* method and Authorization header at the same time; and a step of one
\* request changes no other request and no shared state.
C22_RunIsolated ==
  \A i \in 1..NFlights :
    flights[i].last.mw # "none" =>
      LET l == flights[i].last
          twin == Request(l.before.method, "/", l.before.authorization, Undef, Undef, Undef)
          o == MiddlewareOf(l.mw, twin, l.at)
      IN /\ l.nexts = o.nexts
         /\ l.sent = o.sent
         /\ Attached(flights[i].req) =
              (IF o.req = twin THEN Attached(l.before) ELSE Attached(o.req))
         /\ flights[i].req.method = l.before.method
         /\ flights[i].req.authorization = l.before.authorization

C23_GuestIdentitiesDistinct ==
  \A i, j \in 1..Len(replies) :
    i # j =>
      /\ replies[i].user.id # replies[j].user.id
      /\ replies[i].user.email # replies[j].user.email
      /\ replies[i].token.payload.userId # replies[j].token.payload.userId
      /\ replies[i].token.payload.email # replies[j].token.payload.email

\* two concurrent running generated the same guest email; one was answered 200
C23_Witness ==
  /\ running[1].pc = "done"
  /\ running[2].pc = "done"
  /\ running[1].op = "guestLogin"
  /\ running[2].op = "guestLogin"
  /\ running[1].email = running[2].email
  /\ running[1].res.status = 500
  /\ running[2].res.status = 200
  /\ Len(replies) = 1

\* C24: whatever the interleaving of concurrent register calls for one
\* email, the email has at most one user row and at most one call was
\* answered with success and a token; every other call is answered with an
\* error (400 or 500) and no token.
C24_OneRegistrationPerEmail ==
  /\ \A u, w \in users : u.email = w.email => u = w
  /\ \A i, j \in 1..Len(replies) : i # j => replies[i].user.email # replies[j].user.email
  /\ Cardinality(issued) = Len(replies)
  /\ \A i \in 1..NCalls :
       (running[i].pc = "done" /\ running[i].op = "register") =>
         IF running[i].res.status = 200
         THEN /\ \E k \in 1..Len(replies) : replies[k] = running[i].res.body
              /\ \E u \in users : u.email = running[i].email /\ u.id = running[i].userId
         ELSE /\ running[i].res.status \in {400, 500}
              /\ "token" \notin DOMAIN running[i].res.body
              /\ "error" \in DOMAIN running[i].res.body

\* both calls passed the lookup before either insert; one was answered 200
\* and the other 500
C24_Witness ==
  /\ running[1].pc = "done"
  /\ running[2].pc = "done"
  /\ running[1].email = running[2].email
  /\ running[1].res.status = 200
  /\ running[2].out = "throw"
  /\ running[2].res = RegisterFailed
  /\ Cardinality(users) = 1

LoginAnswered ==
  /\ pc = "done"
  /\ invoked = "login"
  /\ Len(responses) = 1

\* C25: login answers with a non-guest token only when getUserByEmailAndPin
\* returned a user for the email and the 4-digit PIN of the body, and the
\* token carries that user's id, email and name; with exactly one of email
\* and pin missing it answers 400, and when no user has that email and PIN
\* it answers 401, both without a token.
C25_LoginNeedsMatchingUser ==
  LoginAnswered =>
    LET body == req.body
        res == responses[1]
    IN /\ ("token" \in DOMAIN res.body /\ res.body.token.payload.isGuest # Bool(TRUE)) =>
            /\ res.status = 200
            /\ res.body.token.payload.isGuest = Bool(FALSE)
            /\ dbCalls = <<Call("getUserByEmailAndPin", "ok")>>
            /\ Truthy(body.email) /\ Truthy(body.pin)
            /\ body.pin.c \in [1..4 -> Digits]
            /\ \E u \in users :
                 /\ u.email = body.email.s
                 /\ u.pin = body.pin.c
                 /\ res.body.token.payload.userId = Num(u.id)
                 /\ res.body.token.payload.email = Str(u.email)
                 /\ res.body.token.payload.name = Str(u.name)
       /\ (Truthy(body.email) # Truthy(body.pin)) =>
            /\ res = Res(400, [error |-> "Email and PIN are required"])
            /\ dbCalls = <<>>
       /\ ( /\ Truthy(body.email) /\ Truthy(body.pin)
            /\ body.pin.c \in [1..4 -> Digits]
            /\ dbCalls # <<Call("getUserByEmailAndPin", "throw")>>
            /\ ~\E u \in users : u.email = body.email.s /\ u.pin = body.pin.c ) =>
            res = Res(401, [error |-> "Invalid email or PIN"])

\* the email is registered, with another PIN than the one supplied
C25_Witness ==
  /\ LoginAnswered
  /\ Truthy(req.body.email)
  /\ req.body.pin = Chars(<<"4", "3", "2", "1">>)
  /\ \E u \in users : u.email = req.body.email.s /\ u.pin = <<"1", "2", "3", "4">>
  /\ responses[1].status = 401
  /\ \E tok \in issued : tok.payload.email = req.body.email

\* this step is handler h creating a guest session or failing to: the
\* response, the users table and the issued tokens after it
GuestSessionStep(h) ==
  /\ pc' = "done"
  /\ invoked' = h
  /\ \E rnd \in Rnd :
       LET guestEmail == "guest_" \o NumStr(now) \o "_" \o rnd \o "@guest.capstack.local"
           token == JwtSign(Payload(Num(NextId), Str(guestEmail), Str("Guest User"), Bool(TRUE)),
                            jwtSecret, now)
       IN \/ /\ responses' =
                  <<Res(200, [token |-> token,
                              user |-> User(Str(NumStr(NextId)), Str(guestEmail),
                                            Str("Guest User"), Bool(TRUE))])>>
             /\ users' = users \cup {UserRow(NextId, guestEmail, "Guest User", DefaultGuestPin)}
             /\ users' # users
             /\ issued' = issued \cup {token}
             /\ dbCalls' = <<Call("createGuestUser", "ok")>>
          \/ /\ responses' = <<Res(500, [error |-> "Failed to create guest session"])>>
             /\ users' = users
             /\ issued' = issued
             /\ dbCalls' \in {<<Call("createGuestUser", "zero")>>,
                              <<Call("createGuestUser", "throw")>>}

\* C26: login with neither email nor pin does what guestLogin does: each
\* of the two steps creates a guest user and answers 200 with a token with
\* isGuest: true, or answers guestLogin's 500 when the store fails; never a
\* 400 and never a non-guest token.
C26_EmptyLoginIsGuestLogin ==
  [][ /\ (pc = "idle" /\ pc' = "done" /\ invoked' = "guestLogin") =>
           GuestSessionStep("guestLogin")
      /\ (pc = "idle" /\ pc' = "done" /\ invoked' = "login" /\ req'.body = EmptyBody) =>
           /\ GuestSessionStep("login")
           /\ responses'[1].status # 400
           /\ "token" \in DOMAIN responses'[1].body =>
                responses'[1].body.token.payload.isGuest = Bool(TRUE)
    ]_vars

C26_Witness ==
  /\ pc = "done"
  /\ invoked = "login"
  /\ req.body = EmptyBody
  /\ req.path = "/auth/login"
  /\ responses[1].status = 200
  /\ responses[1].body.user.isGuest = Bool(TRUE)
  /\ responses[1].body.token.payload.isGuest = Bool(TRUE)
  /\ Cardinality(users) = 2

\* C27: a browser with no token in localStorage obtains a guest session:
\* the POST /auth/guest of handleGuestLogin passes the request interceptor
\* and is sent, and on a 200 reply the token is in localStorage and the user
\* is a guest.
C27_GuestSessionObtainable ==
  ( /\ client.attempt.op = "guest"
    /\ ~client.attempt.hadToken
    /\ client.pc = "ready" ) =>
    /\ client.attempt.sent
    /\ client.pageError # "Token missing or expired"
    /\ client.attempt.status = 200 =>
         /\ client.storage.k = "jwt"
         /\ client.user.isGuest = Bool(TRUE)

\* C28: a password-reset token changes a password at most once: of the
\* resetPassword calls presenting one token, at most one updates the password
\* and at most one answers 'Password reset successfully'; a call answered
\* with 400 has not changed the password.
C28_TokenResetsAtMostOnce ==
  /\ \A t \in 1..Len(ResetTokens) :
       /\ resets.wrote[t] <= 1
       /\ resets.succeeded[t] <= 1
  /\ \A i \in 1..NResetCalls :
       (resets.calls[i].pc = "done" /\ resets.calls[i].res.status = 400) =>
         resets.calls[i].resetRecord = NoResetRow

\* C29: updateProfile is all-or-nothing: when it has answered 500 'Failed to
\* update profile' the users row and the user_profiles row of the caller are
\* as they were before the call, and when it has answered 200 the requested
\* name and email are in the users row and the upsert has been applied.
C29_UpdateAllOrNothing ==
  profiles.call.pc = "done" =>
    /\ profiles.call.res.status = 500 =>
         /\ profiles.user = profiles.call.userBefore
         /\ profiles.profile = profiles.call.profileBefore
    /\ profiles.call.res.status = 200 =>
         /\ profiles.user = UserAfter(profiles.call.userBefore, profiles.call.body)
         /\ profiles.profile = ProfileAfter(profiles.call.body)

\* the stored item decodes to an object whose exp is a time after t
ExpLater(item, t) ==
  /\ item # NoItem
  /\ JwtDecode(item).t = "object"
  /\ In("exp", JwtDecode(item))
  /\ Get(JwtDecode(item), "exp").t = "number"
  /\ Get(JwtDecode(item), "exp").n > t

\* the stored item is undecodable, lacks exp or is expired at t
Unusable(item, t) ==
  /\ item # NoItem
  /\ \/ JwtDecode(item).t # "object"
     \/ ~In("exp", JwtDecode(item))
     \/ /\ Get(JwtDecode(item), "exp").t = "number"
        /\ Get(JwtDecode(item), "exp").n <= t

\* C30: initializeAuth ends with loading = false; after it user is non-null
\* only if localStorage held a token that decodes to an object with exp
\* later than the current time; an undecodable token, one without exp and an
\* expired one are removed from localStorage and user is null; logout leaves
\* no stored token and user null.
C30_SessionInitialisation ==
  [][ /\ initializeAuth =>
           /\ client'.loading = FALSE
           /\ client'.user # Null => ExpLater(client.storage, now)
           /\ Unusable(client.storage, now) =>
                (client'.storage = NoItem /\ client'.user = Null)
      /\ logout => (client'.storage = NoItem /\ client'.user = Null) ]_vars

====
